---- MODULE Spec2Model ----
(***************************************************************************)
(* Model of the KT0913 AM/FM radio driver (radio-kt0913.c): the register   *)
(* protocol over regmap/I2C, the band-selection logic of VIDIOC_S_FREQUENCY,*)
(* the init sequence run by probe, the controls, the status reads, and the  *)
(* standby transitions issued by runtime PM and by remove.                  *)
(*                                                                          *)
(* Every transport access (one I2C word read or write) is one step and may  *)
(* fail.  A failed write leaves the device register as it was.  All         *)
(* registers are declared volatile in kt0913_regmap_config, so every        *)
(* regmap read goes to the device; regmap_update_bits reads the register,   *)
(* and writes it only when the masked update changes it, holding the        *)
(* regmap's own lock from the read to the write.                            *)
(***************************************************************************)
EXTENDS Integers, Sequences, FiniteSets, TLC

(* ------------------------------------------------------------------ *)
(* Registers, masks and values (decimal; the source gives them in hex) *)
(* ------------------------------------------------------------------ *)
KT0913_REG_CHIP_ID == 1
KT0913_REG_SEEK == 2
KT0913_REG_TUNE == 3
KT0913_REG_VOLUME == 4
KT0913_REG_DSPCFGA == 5
KT0913_REG_LOCFGA == 10
KT0913_REG_LOCFGC == 12
KT0913_REG_RXCFG == 15
KT0913_REG_STATUSA == 18
KT0913_REG_AMSYSCFG == 22
KT0913_REG_AMCHAN == 23
KT0913_REG_GPIOCFG == 29
KT0913_REG_AMDSP == 34
KT0913_REG_AMSTATUSA == 36
KT0913_REG_SOFTMUTE == 46
KT0913_REG_AMCFG == 51
KT0913_REG_AMCFG2 == 52

KT0913_TUNE_FMTUNE_ON == 32768
KT0913_TUNE_FMCHAN_MASK == 4095
KT0913_VOLUME_DMUTE_MASK == 8192
KT0913_VOLUME_DMUTE_ON == 0
KT0913_VOLUME_DMUTE_OFF == 8192
KT0913_VOLUME_DE_MASK == 2048
KT0913_VOLUME_DE_75US == 0
KT0913_VOLUME_DE_50US == 2048
KT0913_VOLUME_POP_MASK == 48
KT0913_VOLUME_POP_SHIFT == 4
KT0913_DSPCFGA_MONO_MASK == 32768
KT0913_DSPCFGA_MONO_ON == 32768
KT0913_DSPCFGA_MONO_OFF == 0
KT0913_LOCFG_CAMPUSBAND_EN_MASK == 8
KT0913_LOCFG_CAMPUSBAND_EN_ON == 8
KT0913_RXCFGA_STDBY_MASK == 4096
KT0913_RXCFGA_STDBY_ON == 4096
KT0913_RXCFGA_STDBY_OFF == 0
KT0913_RXCFGA_VOLUME_MASK == 31
KT0913_STATUSA_PLL_LOCK_MASK == 2048
KT0913_STATUSA_PLL_LOCK_LOCKED == 2048
KT0913_STATUSA_ST_MASK == 768
KT0913_STATUSA_ST_STEREO == 768
KT0913_STATUSA_FMRSSI_MASK == 248
KT0913_STATUSA_FMRSSI_SHIFT == 3
KT0913_AMCHAN_AMTUNE_ON == 32768
KT0913_AMCHAN_AMCHAN_MASK == 2047
KT0913_AMSYSCFG_AM_FM_MASK == 32768
KT0913_AMSYSCFG_AM_FM_AM == 32768
KT0913_AMSYSCFG_AM_FM_FM == 0
KT0913_AMSYSCFG_REFCLK_MASK == 3840
KT0913_AMSYSCFG_REFCLK_SHIFT == 8
KT0913_AMSYSCFG_AU_GAIN_MASK == 192
KT0913_AMSYSCFG_AU_GAIN_6DB == 64
KT0913_AMSYSCFG_AU_GAIN_3DB == 0
KT0913_AMSYSCFG_AU_GAIN_0DB == 192
KT0913_AMSYSCFG_AU_GAIN_MIN_3DB == 128
KT0913_AMSTATUSA_AMRSSI_MASK == 7936
KT0913_AMSTATUSA_AMRSSI_SHIFT == 8

KT0913_CHIP_ID == 21579
V4L2_KHZ_FREQ_MUL == 16
KT0913_FMCHAN_MUL == 50
KT0913_FM_RANGE_LOW_NO_CAMPUS == 64000
KT0913_FM_RANGE_LOW_CAMPUS == 32000
KT0913_FM_RANGE_HIGH == 110000
KT0913_AM_RANGE_LOW == 500
KT0913_AM_RANGE_HIGH == 1710

(* enum { BAND_FM, BAND_FM_CAMUS, BAND_AM } *)
BAND_FM == 0
BAND_FM_CAMUS == 1
BAND_AM == 2

(* errno values returned by the handlers; a transport failure is EIO *)
EINVAL == 0 - 22
EIO == 0 - 5
ENODEV == 0 - 19
ENOMEM == 0 - 12

(* clamp limits of __kt0913_parse_dt *)
AntiPopMax == 3
RefclkMax == 9

(* ------------------------------------------------------------------ *)
(* Bounds of the model                                                 *)
(* ------------------------------------------------------------------ *)
(* device-tree property values run over 0..MaxDt*, one past the clamp *)
MaxDtAntiPop == 4
MaxDtRefclk == 10
(* number of ioctl calls a behaviour issues after a successful probe *)
MaxCalls == 2

(* ------------------------------------------------------------------ *)
(* 16-bit arithmetic of the C code                                     *)
(* ------------------------------------------------------------------ *)
RECURSIVE BitAnd(_, _)
BitAnd(a, b) ==
    IF a = 0 \/ b = 0 THEN 0
    ELSE (a % 2) * (b % 2) + 2 * BitAnd(a \div 2, b \div 2)

BitOr(a, b) == a + b - BitAnd(a, b)

BitNot16(m) == 65535 - BitAnd(m, 65535)

RECURSIVE Pow2(_)
Pow2(n) == IF n = 0 THEN 1 ELSE 2 * Pow2(n - 1)

ShiftLeft(v, n) == v * Pow2(n)

ShiftRight(v, n) == v \div Pow2(n)

(* C's truncating division on the signed control value *)
CDiv(a, b) == IF a >= 0 THEN a \div b ELSE 0 - ((0 - a) \div b)

(* regmap_update_bits: tmp = orig & ~mask; tmp |= val & mask *)
UpdateBits_drop_old(orig, mask, val) == BitAnd(val, mask)

UpdateBits(orig, mask, val) ==
    BitOr(BitAnd(orig, BitNot16(mask)), BitAnd(val, mask))

Clamp(v, lo, hi) == IF v < lo THEN lo ELSE IF v > hi THEN hi ELSE v

(* ------------------------------------------------------------------ *)
(* Tables                                                              *)
(* ------------------------------------------------------------------ *)
kt0913_init_regs_to_defaults_bad_address ==
    << <<KT0913_REG_RXCFG, 34847>>,
       <<KT0913_REG_SEEK, 11>>,
       <<KT0913_REG_DSPCFGA, 4096>>,
       <<KT0913_REG_LOCFGA, 256>>,
       <<KT0913_REG_LOCFGC, 36>>,
       <<KT0913_REG_AMSYSCFG, 2>>,
       <<KT0913_REG_AMCHAN, 504>>,
       <<KT0913_REG_GPIOCFG, 0>>,
       <<KT0913_REG_AMDSP, 44996>>,
       <<KT0913_REG_SOFTMUTE, 16>>,
       <<KT0913_REG_AMCFG, 5121>>,
       << 53, 16464>>,
       <<KT0913_REG_TUNE, 34488>>,
       <<KT0913_REG_VOLUME, 57472>> >>

kt0913_init_regs_to_defaults ==
    << <<KT0913_REG_RXCFG, 34847>>,
       <<KT0913_REG_SEEK, 11>>,
       <<KT0913_REG_DSPCFGA, 4096>>,
       <<KT0913_REG_LOCFGA, 256>>,
       <<KT0913_REG_LOCFGC, 36>>,
       <<KT0913_REG_AMSYSCFG, 2>>,
       <<KT0913_REG_AMCHAN, 504>>,
       <<KT0913_REG_GPIOCFG, 0>>,
       <<KT0913_REG_AMDSP, 44996>>,
       <<KT0913_REG_SOFTMUTE, 16>>,
       <<KT0913_REG_AMCFG, 5121>>,
       <<KT0913_REG_AMCFG, 16464>>,
       <<KT0913_REG_TUNE, 34488>>,
       <<KT0913_REG_VOLUME, 57472>> >>

rangelow(b) ==
    IF b = BAND_AM THEN KT0913_AM_RANGE_LOW * V4L2_KHZ_FREQ_MUL
    ELSE IF b = BAND_FM_CAMUS THEN KT0913_FM_RANGE_LOW_CAMPUS * V4L2_KHZ_FREQ_MUL
    ELSE KT0913_FM_RANGE_LOW_NO_CAMPUS * V4L2_KHZ_FREQ_MUL

rangehigh(b) ==
    IF b = BAND_AM THEN KT0913_AM_RANGE_HIGH * V4L2_KHZ_FREQ_MUL
    ELSE KT0913_FM_RANGE_HIGH * V4L2_KHZ_FREQ_MUL

khz_to_v4l2_freq(freq) == freq * V4L2_KHZ_FREQ_MUL

v4l2_freq_to_khz_no_division(v4l2_freq) == v4l2_freq

v4l2_freq_to_khz(v4l2_freq) == v4l2_freq \div V4L2_KHZ_FREQ_MUL

(* ------------------------------------------------------------------ *)
(* State                                                               *)
(* ------------------------------------------------------------------ *)
VARIABLES
    campus,          \* kt0913_use_campus_band (module parameter)
    dt_anti_pop,     \* "ktm,anti-pop" of the device-tree node, -1 when absent
    dt_refclk,       \* "ktm,refclk" of the device-tree node, -1 when absent
    dev,             \* the chip's configuration registers
    band,            \* radio->band
    audio_anti_pop,  \* radio->audio_anti_pop
    refclock_val,    \* radio->refclock_val
    regmap,          \* radio->regmap is set (FALSE: still NULL from kzalloc)
    mutex,           \* owner of radio->mutex (vdev.lock), "free" when not held
    maplock,         \* owner of the regmap's internal lock
    pc,              \* position of each thread of control
    tmp,             \* per thread: the value regmap_update_bits has read
    log,             \* per thread: the bus accesses of the call in progress
    ret,             \* per thread: return value of the call in progress
    tbl,             \* __kt0913_init: index of the next table entry
    istep,           \* __kt0913_init: the step in progress
    op,              \* the ioctl in progress: [name, arg, idx]
    entry,           \* band and tuning registers when the ioctl was entered
    tuned,           \* frequency of the last set_frequency, if it succeeded
    newband,         \* new_band of kt0913_ioctl_vidioc_s_frequency
    out,             \* value the ioctl in progress hands back
    calls,           \* ioctl calls issued so far
    pm_enabled,      \* runtime PM is enabled for the device
    pm_suspended,    \* runtime PM status
    registered       \* the video device is registered

vars == << campus, dt_anti_pop, dt_refclk, dev, band, audio_anti_pop,
           refclock_val, regmap, mutex, maplock, pc, tmp, log, ret, tbl, istep, op,
           entry, tuned, newband, out, calls, pm_enabled, pm_suspended, registered >>

Threads == {"probe", "ioctl", "pm", "remove"}

(* the configuration registers the driver writes, plus AMCFG2 *)
Regs == { KT0913_REG_SEEK, KT0913_REG_TUNE, KT0913_REG_VOLUME,
          KT0913_REG_DSPCFGA, KT0913_REG_LOCFGA, KT0913_REG_LOCFGC,
          KT0913_REG_RXCFG, KT0913_REG_AMSYSCFG, KT0913_REG_AMCHAN,
          KT0913_REG_GPIOCFG, KT0913_REG_AMDSP, KT0913_REG_SOFTMUTE,
          KT0913_REG_AMCFG, KT0913_REG_AMCFG2 }

NoOp == [name |-> "none", arg |-> 0, idx |-> 0]

NoEntry == [band |-> 0, amsyscfg |-> 0, tune |-> 0, amchan |-> 0]

NoOut == [val |-> 0, sub |-> 0, mode |-> 0]

(* ------------------------------------------------------------------ *)
(* Bus accesses through the regmap                                     *)
(* ------------------------------------------------------------------ *)
(* the calls whose bus accesses are recorded until they return *)
Logged == {"probe", "ioctl"}

(* one transport read of a register: v is what the device answers *)
BusRead(t, s, addr, v, ok) ==
    /\ log' = IF t \in Logged
              THEN [log EXCEPT ![t] =
                      Append(@, [k |-> "r", a |-> addr, v |-> v, ok |-> ok, s |-> s])]
              ELSE log
    /\ dev' = dev

(* one transport write of a register; a failed write changes nothing *)
BusWrite(t, s, addr, v, ok) ==
    /\ log' = IF t \in Logged
              THEN [log EXCEPT ![t] =
                      Append(@, [k |-> "w", a |-> addr, v |-> v, ok |-> ok, s |-> s])]
              ELSE log
    /\ dev' = IF ok THEN [dev EXCEPT ![addr] = v] ELSE dev

(* a regmap configured with .disable_locking: nobody ever holds its lock *)
RegmapLockHolder_disable_locking(t) == "free"

(* kt0913_regmap_config leaves regmap's locking on: the map's lock is held by
   the thread inside regmap_update_bits from its read to its write *)
RegmapLockHolder(t) == t

(* regmap_write / one entry of regmap_multi_reg_write *)
RegmapWrite(t, s, addr, v, ok) ==
    /\ maplock = "free"
    /\ BusWrite(t, s, addr, v, ok)
    /\ UNCHANGED << maplock, tmp >>

(* regmap_update_bits with the write forced *)
UpdateNeedsWrite_always(orig, mask, val) == TRUE

(* regmap_update_bits writes only when the update changes the register *)
UpdateNeedsWrite(orig, mask, val) == UpdateBits(orig, mask, val) # orig

(* regmap_update_bits, first half: take the regmap lock and read *)
UpdateBitsRead(t, s, addr, mask, val, ok) ==
    /\ maplock = "free"
    /\ BusRead(t, s, addr, dev[addr], ok)
    /\ tmp' = [tmp EXCEPT ![t] = IF ok THEN dev[addr] ELSE @]
    /\ maplock' = IF ok /\ UpdateNeedsWrite(dev[addr], mask, val)
                  THEN RegmapLockHolder(t) ELSE "free"

(* regmap_update_bits, second half: write the new value and unlock *)
UpdateBitsWrite(t, s, addr, mask, val, ok) ==
    /\ maplock = RegmapLockHolder(t)
    /\ BusWrite(t, s, addr, UpdateBits(tmp[t], mask, val), ok)
    /\ maplock' = "free"
    /\ tmp' = [tmp EXCEPT ![t] = 0]

(* where a thread goes after the read half of regmap_update_bits *)
AfterUpdateRead(addr, mask, val, ok, pcWrite, pcDone, pcFail) ==
    IF ~ok THEN pcFail
    ELSE IF UpdateNeedsWrite(dev[addr], mask, val) THEN pcWrite
    ELSE pcDone

(* ------------------------------------------------------------------ *)
(* Initial states                                                      *)
(* ------------------------------------------------------------------ *)
(* what the CHIP_ID read can return: the expected id, the same two bytes in
   the other order (0x4B54), or something else *)
ChipIdVals == {KT0913_CHIP_ID, 19284, 0}

(* radio comes from devm_kzalloc: band = 0 = BAND_FM, regmap = NULL *)
InitWith(dtAntiPop, dtRefclk, powerOn) ==
    /\ campus \in {0, 1}
    /\ dt_anti_pop \in dtAntiPop
    /\ dt_refclk \in dtRefclk
    /\ \E por \in powerOn : dev = [r \in Regs |-> por]
    /\ band = BAND_FM
    /\ audio_anti_pop = 0
    /\ refclock_val = 0
    /\ regmap = FALSE
    /\ mutex = "free"
    /\ maplock = "free"
    /\ pc = [t \in Threads |-> IF t = "probe" THEN "p_func" ELSE "idle"]
    /\ tmp = [t \in Threads |-> 0]
    /\ log = [t \in Threads |-> << >>]
    /\ ret = [t \in Threads |-> 0]
    /\ tbl = 1
    /\ istep = "table"
    /\ op = NoOp
    /\ entry = NoEntry
    /\ tuned = 0
    /\ newband = BAND_FM
    /\ out = NoOut
    /\ calls = 0
    /\ pm_enabled = FALSE
    /\ pm_suspended = FALSE
    /\ registered = FALSE

(* ------------------------------------------------------------------ *)
(* kt0913_probe                                                        *)
(* ------------------------------------------------------------------ *)
Goto(t, l) == pc' = [pc EXCEPT ![t] = l]

Return(t, l, r) ==
    /\ pc' = [pc EXCEPT ![t] = l]
    /\ ret' = [ret EXCEPT ![t] = r]

radioVars == << band, audio_anti_pop, refclock_val, regmap >>
cfgVars == << campus, dt_anti_pop, dt_refclk >>
ioctlVars == << op, entry, tuned, newband, out, calls >>
pmVars == << pm_enabled, pm_suspended, registered >>
busVars == << dev, maplock, tmp, log >>

(* i2c_check_functionality fails: return -EIO *)
ProbeCheckFunctionality ==
    /\ pc["probe"] = "p_func"
    /\ \E ok \in BOOLEAN :
         IF ok THEN Goto("probe", "p_chipid") /\ UNCHANGED ret
         ELSE Return("probe", "p_failed", EIO)
    /\ UNCHANGED << cfgVars, radioVars, busVars, ioctlVars, pmVars, mutex, tbl, istep >>

(* "if (ret != KT0913_CHIP_ID) return -ENODEV", on the word as returned by
   i2c_smbus_read_word_data *)
ChipIdMatches_either_byte_order(id) ==
    id = KT0913_CHIP_ID \/ id = (KT0913_CHIP_ID % 256) * 256 + KT0913_CHIP_ID \div 256

ChipIdMatches(id) == id = KT0913_CHIP_ID

(* i2c_smbus_read_word_data(client, KT0913_REG_CHIP_ID) and the id check *)
ProbeReadChipId ==
    /\ pc["probe"] = "p_chipid"
    /\ \E ok \in BOOLEAN, id \in ChipIdVals :
         /\ BusRead("probe", "chipid", KT0913_REG_CHIP_ID, id, ok)
         /\ IF ~ok THEN Return("probe", "p_failed", EIO)
            ELSE IF ~ChipIdMatches(id) THEN Return("probe", "p_failed", ENODEV)
            ELSE Goto("probe", "p_register") /\ UNCHANGED ret
    /\ UNCHANGED << cfgVars, radioVars, maplock, tmp, ioctlVars, pmVars, mutex, tbl, istep >>

(* devm_kzalloc, v4l2_device_register, the five controls, devm_regmap_init_i2c:
   which = 0 all succeed; 1 kzalloc fails (plain return); 2 v4l2_device_register
   fails (goto errfr); 3 a control fails (goto errunreg); 4 the regmap cannot
   be created (goto errunreg).  On success radio->regmap is set. *)
ProbeRegister ==
    /\ pc["probe"] = "p_register"
    /\ \E which \in 0..4 :
         /\ IF which = 0 THEN Goto("probe", "p_parse_dt") /\ UNCHANGED ret
            ELSE IF which = 1 THEN Return("probe", "p_failed", ENOMEM)
            ELSE Return("probe", "p_errfr", ENOMEM)
         /\ regmap' = (which = 0)
    /\ UNCHANGED << cfgVars, band, audio_anti_pop, refclock_val, busVars,
                    ioctlVars, pmVars, mutex, tbl, istep >>

(* __kt0913_parse_dt *)
ParsedProperty_no_clamp(prop, hi) == IF prop < 0 THEN 0 ELSE prop

ParsedProperty(prop, hi) == IF prop < 0 THEN 0 ELSE Clamp(prop, 0, hi)

kt0913_parse_dt ==
    /\ pc["probe"] = "p_parse_dt"
    /\ audio_anti_pop' = ParsedProperty(dt_anti_pop, AntiPopMax)
    /\ refclock_val' = ParsedProperty(dt_refclk, RefclkMax)
    /\ Goto("probe", "i_table")
    /\ UNCHANGED << cfgVars, band, regmap, busVars, ioctlVars, pmVars, mutex,
                    ret, tbl, istep >>

(* ------------------------------------------------------------------ *)
(* __kt0913_init                                                       *)
(* ------------------------------------------------------------------ *)
(* the field updates that follow the table, in the order of the source *)
InitOrder_refclk_first == << "table", "refclk", "antipop", "campus", "mute" >>

InitOrder == << "table", "antipop", "refclk", "campus", "mute" >>

InitIndex(step) == CHOOSE i \in 1..Len(InitOrder) : InitOrder[i] = step

(* the step after `step`; the campus-band update only with the parameter set *)
InitNext(step) ==
    LET i == InitIndex(step)
        j == IF i < Len(InitOrder) /\ InitOrder[i + 1] = "campus" /\ campus = 0
             THEN i + 2 ELSE i + 1
    IN IF j > Len(InitOrder) THEN "done" ELSE InitOrder[j]

(* register, mask and value of each field update of __kt0913_init *)
InitUpdate(step) ==
    IF step = "antipop" THEN
        [a |-> KT0913_REG_VOLUME, m |-> KT0913_VOLUME_POP_MASK,
         v |-> ShiftLeft(audio_anti_pop, KT0913_VOLUME_POP_SHIFT)]
    ELSE IF step = "refclk" THEN
        [a |-> KT0913_REG_AMSYSCFG, m |-> KT0913_AMSYSCFG_REFCLK_MASK,
         v |-> ShiftLeft(refclock_val, KT0913_AMSYSCFG_REFCLK_SHIFT)]
    ELSE IF step = "campus" THEN
        [a |-> KT0913_REG_LOCFGC, m |-> KT0913_LOCFG_CAMPUSBAND_EN_MASK,
         v |-> KT0913_LOCFG_CAMPUSBAND_EN_ON]
    ELSE
        [a |-> KT0913_REG_VOLUME, m |-> KT0913_VOLUME_DMUTE_MASK,
         v |-> KT0913_VOLUME_DMUTE_ON]

(* regmap_multi_reg_write: one entry per step, stopping at the first failure *)
InitTableWrite ==
    /\ pc["probe"] = "i_table"
    /\ LET e == kt0913_init_regs_to_defaults[tbl] IN
       \E ok \in BOOLEAN :
         /\ RegmapWrite("probe", "table", e[1], e[2], ok)
         /\ IF ~ok THEN
                Return("probe", "i_ret", EIO) /\ UNCHANGED << tbl, istep >>
            ELSE IF tbl < Len(kt0913_init_regs_to_defaults) THEN
                tbl' = tbl + 1 /\ UNCHANGED << pc, ret, istep >>
            ELSE
                /\ Goto("probe", "i_r")
                /\ istep' = InitNext("table")
                /\ UNCHANGED << tbl, ret >>
    /\ UNCHANGED << cfgVars, radioVars, ioctlVars, pmVars, mutex >>

(* what __kt0913_init does once the update of `istep` has succeeded *)
InitStepDone ==
    IF InitNext(istep) = "done"
    THEN Return("probe", "i_ret", 0) /\ UNCHANGED istep
    ELSE Goto("probe", "i_r") /\ istep' = InitNext(istep) /\ UNCHANGED ret

InitUpdateRead ==
    /\ pc["probe"] = "i_r"
    /\ LET u == InitUpdate(istep) IN
       \E ok \in BOOLEAN :
         /\ UpdateBitsRead("probe", istep, u.a, u.m, u.v, ok)
         /\ IF ~ok THEN Return("probe", "i_ret", EIO) /\ UNCHANGED istep
            ELSE IF UpdateNeedsWrite(dev[u.a], u.m, u.v)
                 THEN Goto("probe", "i_w") /\ UNCHANGED << ret, istep >>
            ELSE InitStepDone
    /\ UNCHANGED << cfgVars, radioVars, ioctlVars, pmVars, mutex, tbl >>

InitUpdateWrite ==
    /\ pc["probe"] = "i_w"
    /\ LET u == InitUpdate(istep) IN
       \E ok \in BOOLEAN :
         /\ UpdateBitsWrite("probe", istep, u.a, u.m, u.v, ok)
         /\ IF ~ok THEN Return("probe", "i_ret", EIO) /\ UNCHANGED istep
            ELSE InitStepDone
    /\ UNCHANGED << cfgVars, radioVars, ioctlVars, pmVars, mutex, tbl >>

(* ------------------------------------------------------------------ *)
(* kt0913_probe after __kt0913_init                                    *)
(* ------------------------------------------------------------------ *)
(* init failed: goto errunreg; else pm_runtime_set_active/enable *)
ProbeAfterInit ==
    /\ pc["probe"] = "i_ret"
    /\ IF ret["probe"] # 0
       THEN Goto("probe", "p_errfr") /\ UNCHANGED << pm_enabled, pm_suspended >>
       ELSE /\ Goto("probe", "p_videoreg")
            /\ pm_enabled' = TRUE
            /\ pm_suspended' = FALSE
    /\ log' = [log EXCEPT !["probe"] = << >>]
    /\ UNCHANGED << cfgVars, radioVars, dev, maplock, tmp, ioctlVars,
                    registered, mutex, ret, tbl, istep >>

(* video_register_device; on failure error_pm_disable: pm_runtime_disable
   (which waits for a callback in progress) and pm_runtime_set_suspended *)
ProbeRegisterVideo ==
    /\ pc["probe"] = "p_videoreg"
    /\ \E ok \in BOOLEAN :
         IF ok THEN
            /\ Return("probe", "p_done", 0)
            /\ registered' = TRUE
            /\ UNCHANGED << pm_enabled, pm_suspended >>
         ELSE
            /\ pc["pm"] = "idle"
            /\ Return("probe", "p_errfr", ENOMEM)
            /\ pm_enabled' = FALSE
            /\ pm_suspended' = TRUE
            /\ UNCHANGED registered
    /\ UNCHANGED << cfgVars, radioVars, busVars, ioctlVars, mutex, tbl, istep >>

(* errfr: __kt0913_set_standby(radio, true), then kfree(radio).  When the
   regmap was never created radio->regmap is NULL and the call dereferences
   it: the probe ends in an oops. *)
ProbeErrStandbyRead ==
    /\ pc["probe"] = "p_errfr"
    /\ IF ~regmap THEN
          Goto("probe", "p_oops") /\ UNCHANGED busVars
       ELSE
          \E ok \in BOOLEAN :
            /\ UpdateBitsRead("probe", "standby", KT0913_REG_RXCFG,
                              KT0913_RXCFGA_STDBY_MASK, KT0913_RXCFGA_STDBY_ON, ok)
            /\ Goto("probe", AfterUpdateRead(KT0913_REG_RXCFG,
                        KT0913_RXCFGA_STDBY_MASK, KT0913_RXCFGA_STDBY_ON, ok,
                        "p_errfr_w", "p_failed", "p_failed"))
    /\ UNCHANGED << cfgVars, radioVars, ioctlVars, pmVars, mutex, ret, tbl, istep >>

ProbeErrStandbyWrite ==
    /\ pc["probe"] = "p_errfr_w"
    /\ \E ok \in BOOLEAN :
         UpdateBitsWrite("probe", "standby", KT0913_REG_RXCFG,
                         KT0913_RXCFGA_STDBY_MASK, KT0913_RXCFGA_STDBY_ON, ok)
    /\ Goto("probe", "p_failed")
    /\ UNCHANGED << cfgVars, radioVars, ioctlVars, pmVars, mutex, ret, tbl, istep >>

Probe ==
    \/ ProbeCheckFunctionality
    \/ ProbeReadChipId
    \/ ProbeRegister
    \/ kt0913_parse_dt
    \/ InitTableWrite
    \/ InitUpdateRead
    \/ InitUpdateWrite
    \/ ProbeAfterInit
    \/ ProbeRegisterVideo
    \/ ProbeErrStandbyRead
    \/ ProbeErrStandbyWrite

(* ------------------------------------------------------------------ *)
(* Specification of the attach path alone, over every configuration   *)
(* ------------------------------------------------------------------ *)
InitAttach == InitWith(-1..MaxDtAntiPop, -1..MaxDtRefclk, {0, 65535})

SpecAttach == InitAttach /\ [][Probe]_vars

(* ------------------------------------------------------------------ *)
(* Frequency codec of the get/set frequency helpers                    *)
(* ------------------------------------------------------------------ *)
(* __kt0913_get_fm_frequency / __kt0913_get_am_frequency on a register value *)
kt0913_get_fm_frequency(tune_reg) ==
    BitAnd(tune_reg, KT0913_TUNE_FMCHAN_MASK) * KT0913_FMCHAN_MUL

kt0913_get_am_frequency(amchan_reg) ==
    BitAnd(amchan_reg, KT0913_AMCHAN_AMCHAN_MASK)

(* register read by kt0913_ioctl_vidioc_g_frequency in band b *)
FreqReg(b) == IF b = BAND_AM THEN KT0913_REG_AMCHAN ELSE KT0913_REG_TUNE

(* f->frequency handed back by kt0913_ioctl_vidioc_g_frequency for value v *)
GFrequencyValue(b, v) ==
    khz_to_v4l2_freq(IF b = BAND_AM THEN kt0913_get_am_frequency(v)
                     ELSE kt0913_get_fm_frequency(v))

(* ------------------------------------------------------------------ *)
(* ioctl entry and exit                                                *)
(* ------------------------------------------------------------------ *)
(* The V4L2 core takes vdev.lock = &radio->mutex around every ioctl of a
   registered video device.  The model follows the driver until
   kt0913_remove has returned. *)
CanEnterIoctl ==
    /\ pc["ioctl"] = "idle"
    /\ registered
    /\ mutex = "free"
    /\ calls < MaxCalls
    /\ pc["remove"] # "rm_done"

InIoctl(l) == pc["ioctl"] = l /\ pc["remove"] # "rm_done"

EnterIoctl(o) ==
    /\ op' = o
    /\ mutex' = "ioctl"
    /\ calls' = calls + 1
    /\ entry' = [band |-> band, amsyscfg |-> dev[KT0913_REG_AMSYSCFG],
                 tune |-> dev[KT0913_REG_TUNE], amchan |-> dev[KT0913_REG_AMCHAN]]

(* the ioctl returns to the V4L2 core, which releases vdev.lock *)
IoctlReturn ==
    /\ InIoctl("ret")
    /\ Return("ioctl", "idle", 0)
    /\ mutex' = "free"
    /\ op' = NoOp
    /\ entry' = NoEntry
    /\ newband' = BAND_FM
    /\ out' = NoOut
    /\ log' = [log EXCEPT !["ioctl"] = << >>]
    /\ UNCHANGED << cfgVars, radioVars, pmVars, dev, maplock, tmp, tuned,
                    calls, tbl, istep >>

(* ------------------------------------------------------------------ *)
(* kt0913_ioctl_vidioc_s_frequency                                     *)
(* ------------------------------------------------------------------ *)
NoBand == 0 - 1

(* the range check without its upper comparison *)
InRange_no_upper(freq, b) == freq >= rangelow(b)

InRange(freq, b) == freq >= rangelow(b) /\ freq <= rangehigh(b)

(* the band checks of the handler, in its order: AM, FM, campus FM *)
ClassifyBand_campus_unchecked(freq) ==
    IF InRange(freq, BAND_AM) THEN BAND_AM
    ELSE IF InRange(freq, BAND_FM) THEN BAND_FM
    ELSE IF InRange(freq, BAND_FM_CAMUS) THEN BAND_FM_CAMUS
    ELSE NoBand

ClassifyBand_fm_exclusive_low(freq) ==
    IF InRange(freq, BAND_AM) THEN BAND_AM
    ELSE IF freq > rangelow(BAND_FM) /\ freq <= rangehigh(BAND_FM) THEN BAND_FM
    ELSE IF campus # 0 /\ InRange(freq, BAND_FM_CAMUS) THEN BAND_FM_CAMUS
    ELSE NoBand

ClassifyBand(freq) ==
    IF InRange(freq, BAND_AM) THEN BAND_AM
    ELSE IF InRange(freq, BAND_FM) THEN BAND_FM
    ELSE IF campus # 0 /\ InRange(freq, BAND_FM_CAMUS) THEN BAND_FM_CAMUS
    ELSE NoBand

(* value __kt0913_set_am_fm_band puts under KT0913_AMSYSCFG_AM_FM_MASK *)
kt0913_am_fm_value(b) ==
    IF b = BAND_AM THEN KT0913_AMSYSCFG_AM_FM_AM ELSE KT0913_AMSYSCFG_AM_FM_FM

(* register and value of __kt0913_set_am_frequency / __kt0913_set_fm_frequency *)
TuneWrite_fm_unscaled(b, khz) ==
    IF b = BAND_AM
    THEN << KT0913_REG_AMCHAN, BitOr(KT0913_AMCHAN_AMTUNE_ON, khz) >>
    ELSE << KT0913_REG_TUNE, BitOr(KT0913_TUNE_FMTUNE_ON, khz) >>

TuneWrite(b, khz) ==
    IF b = BAND_AM
    THEN << KT0913_REG_AMCHAN, BitOr(KT0913_AMCHAN_AMTUNE_ON, khz) >>
    ELSE << KT0913_REG_TUNE,
            BitOr(KT0913_TUNE_FMTUNE_ON, khz \div KT0913_FMCHAN_MUL) >>

(* "if (radio->band != new_band)": is the mode update issued? *)
NeedsBandChange_never(cur, new) == FALSE

NeedsBandChange(cur, new) == cur # new

(* radio->band assigned without looking at ret *)
BandAfterModeUpdate_unchecked(ok) == newband

(* radio->band after __kt0913_set_am_fm_band returned ret (ok = no error) *)
BandAfterModeUpdate(ok) == IF ok THEN newband ELSE band

(* "if (ret) return ret;" after __kt0913_set_am_fm_band *)
AfterModeUpdate_ignore_error(ok) == Goto("ioctl", "sf_freq") /\ UNCHANGED ret

AfterModeUpdate(ok) ==
    IF ok THEN Goto("ioctl", "sf_freq") /\ UNCHANGED ret
    ELSE Return("ioctl", "ret", EIO)

(* frequencies requested: the edges of every band, one past them, values
   off the channel grid, 40 MHz, and 0 *)
FreqInputs ==
    { 0,
      500 * 16 - 1, 500 * 16, 1000 * 16, 1000 * 16 + 5, 1710 * 16, 1710 * 16 + 1,
      32000 * 16 - 1, 32000 * 16, 40000 * 16,
      64000 * 16 - 1, 64000 * 16, 87525 * 16 + 7, 110000 * 16, 110000 * 16 + 1 }

(* f->tuner != 0 is tried with one frequency *)
SFreqInputs ==
    { [name |-> "s_frequency", arg |-> f, idx |-> 0] : f \in FreqInputs }
    \cup { [name |-> "s_frequency", arg |-> 1000 * 16, idx |-> 1] }

SFrequency ==
    /\ CanEnterIoctl
    /\ \E o \in SFreqInputs :
         /\ EnterIoctl(o)
         /\ IF o.idx # 0 \/ o.arg = 0 \/ ClassifyBand(o.arg) = NoBand THEN
               /\ Return("ioctl", "ret", EINVAL)
               /\ UNCHANGED newband
            ELSE
               /\ newband' = ClassifyBand(o.arg)
               /\ Goto("ioctl", IF NeedsBandChange(band, ClassifyBand(o.arg))
                                THEN "sf_mode_r" ELSE "sf_freq")
               /\ UNCHANGED ret
    /\ tuned' = 0
    /\ UNCHANGED << cfgVars, radioVars, pmVars, busVars, out, tbl, istep >>

(* __kt0913_set_am_fm_band: regmap_update_bits on AMSYSCFG, read half *)
SFreqModeRead ==
    /\ InIoctl("sf_mode_r")
    /\ \E ok \in BOOLEAN :
         /\ UpdateBitsRead("ioctl", "mode", KT0913_REG_AMSYSCFG,
                           KT0913_AMSYSCFG_AM_FM_MASK, kt0913_am_fm_value(newband), ok)
         /\ IF ok /\ UpdateNeedsWrite(dev[KT0913_REG_AMSYSCFG],
                        KT0913_AMSYSCFG_AM_FM_MASK, kt0913_am_fm_value(newband))
            THEN Goto("ioctl", "sf_mode_w") /\ UNCHANGED << ret, band >>
            ELSE AfterModeUpdate(ok) /\ band' = BandAfterModeUpdate(ok)
    /\ UNCHANGED << cfgVars, audio_anti_pop, refclock_val, regmap, pmVars,
                    ioctlVars, mutex, tbl, istep >>

(* __kt0913_set_am_fm_band, write half; then radio->band = new_band *)
SFreqModeWrite ==
    /\ InIoctl("sf_mode_w")
    /\ \E ok \in BOOLEAN :
         /\ UpdateBitsWrite("ioctl", "mode", KT0913_REG_AMSYSCFG,
                            KT0913_AMSYSCFG_AM_FM_MASK, kt0913_am_fm_value(newband), ok)
         /\ AfterModeUpdate(ok)
         /\ band' = BandAfterModeUpdate(ok)
    /\ UNCHANGED << cfgVars, audio_anti_pop, refclock_val, regmap, pmVars,
                    ioctlVars, mutex, tbl, istep >>

(* __kt0913_set_am_frequency or __kt0913_set_fm_frequency on radio->band *)
SFreqWrite ==
    /\ InIoctl("sf_freq")
    /\ LET w == TuneWrite(band, v4l2_freq_to_khz(op.arg)) IN
       \E ok \in BOOLEAN :
         /\ RegmapWrite("ioctl", "freq", w[1], w[2], ok)
         /\ Return("ioctl", "ret", IF ok THEN 0 ELSE EIO)
         /\ tuned' = IF ok THEN op.arg ELSE 0
    /\ UNCHANGED << cfgVars, radioVars, pmVars, op, entry, newband, out, calls,
                    mutex, tbl, istep >>

(* ------------------------------------------------------------------ *)
(* Reads: g_frequency, g_tuner, g_volatile_ctrl                        *)
(* ------------------------------------------------------------------ *)
(* what STATUSA / AMSTATUSA may hold: nothing set, everything set, or PLL
   locked, stereo and an RSSI of 15 *)
StatusVals == {0, 65535, 2048 + 768 + 15 * 8, 15 * 256}

IsStatusReg(a) == a \in {KT0913_REG_STATUSA, KT0913_REG_AMSTATUSA}

(* registers a read-only ioctl reads, in order, in band b *)
ReadPlan_always_fm(o, b) ==
    IF o.name = "g_frequency" THEN << KT0913_REG_TUNE >>
    ELSE IF o.name = "g_pll_lock" THEN << KT0913_REG_STATUSA >>
    ELSE << KT0913_REG_DSPCFGA, KT0913_REG_STATUSA, KT0913_REG_STATUSA >>

ReadPlan(o, b) ==
    IF o.name = "g_frequency" THEN << FreqReg(b) >>
    ELSE IF o.name = "g_pll_lock" THEN << KT0913_REG_STATUSA >>
    ELSE IF b = BAND_AM THEN << KT0913_REG_AMSTATUSA >>
    ELSE << KT0913_REG_DSPCFGA, KT0913_REG_STATUSA, KT0913_REG_STATUSA >>

(* __kt0913_get_fm_rssi / __kt0913_get_am_rssi on a register value *)
kt0913_get_fm_rssi_divide_first(statusa_reg) ==
    (ShiftRight(BitAnd(statusa_reg, KT0913_STATUSA_FMRSSI_MASK),
                KT0913_STATUSA_FMRSSI_SHIFT)
     \div ShiftRight(KT0913_STATUSA_FMRSSI_MASK, KT0913_STATUSA_FMRSSI_SHIFT))
    * 65535

kt0913_get_fm_rssi(statusa_reg) ==
    (ShiftRight(BitAnd(statusa_reg, KT0913_STATUSA_FMRSSI_MASK),
                KT0913_STATUSA_FMRSSI_SHIFT) * 65535)
    \div ShiftRight(KT0913_STATUSA_FMRSSI_MASK, KT0913_STATUSA_FMRSSI_SHIFT)

kt0913_get_am_rssi(amstatusa_reg) ==
    (ShiftRight(BitAnd(amstatusa_reg, KT0913_AMSTATUSA_AMRSSI_MASK),
                KT0913_AMSTATUSA_AMRSSI_SHIFT) * 65535)
    \div ShiftRight(KT0913_AMSTATUSA_AMRSSI_MASK, KT0913_AMSTATUSA_AMRSSI_SHIFT)

kt0913_get_pll_status(statusa_reg) ==
    IF BitAnd(statusa_reg, KT0913_STATUSA_PLL_LOCK_MASK)
         = KT0913_STATUSA_PLL_LOCK_LOCKED THEN 1 ELSE 0

kt0913_get_rx_stereo_or_mono(statusa_reg) ==
    IF BitAnd(statusa_reg, KT0913_STATUSA_ST_MASK) = KT0913_STATUSA_ST_STEREO
    THEN 1 ELSE 0

kt0913_get_cfg_stereo_enabled(dspcfga_reg) ==
    IF BitAnd(dspcfga_reg, KT0913_DSPCFGA_MONO_MASK) = KT0913_DSPCFGA_MONO_OFF
    THEN 1 ELSE 0

V4L2_TUNER_SUB_MONO == 1
V4L2_TUNER_SUB_STEREO == 2
V4L2_TUNER_MODE_MONO == 0
V4L2_TUNER_MODE_STEREO == 1

(* what the ioctl hands back, from the values vs it has read *)
ReadResult(o, b, vs) ==
    IF o.name = "g_frequency" THEN
        [val |-> GFrequencyValue(b, vs[1]), sub |-> 0, mode |-> 0]
    ELSE IF o.name = "g_pll_lock" THEN
        [val |-> kt0913_get_pll_status(vs[1]), sub |-> 0, mode |-> 0]
    ELSE IF b = BAND_AM THEN
        [val |-> kt0913_get_am_rssi(vs[1]), sub |-> V4L2_TUNER_SUB_MONO,
         mode |-> V4L2_TUNER_MODE_MONO]
    ELSE
        [val |-> kt0913_get_fm_rssi(vs[3]),
         sub |-> IF kt0913_get_cfg_stereo_enabled(vs[1]) = 1
                 THEN V4L2_TUNER_SUB_STEREO ELSE V4L2_TUNER_SUB_MONO,
         mode |-> IF kt0913_get_rx_stereo_or_mono(vs[2]) = 1
                  THEN V4L2_TUNER_MODE_STEREO ELSE V4L2_TUNER_MODE_MONO]

(* kt0913_ioctl_vidioc_g_frequency (f->tuner = idx),
   kt0913_ioctl_vidioc_g_tuner (v->index = idx),
   kt0913_g_volatile_ctrl (V4L2_CID_RF_TUNER_PLL_LOCK) *)
ReadInputs ==
    { [name |-> "g_frequency", arg |-> 0, idx |-> i] : i \in {0, 1} }
    \cup { [name |-> "g_tuner", arg |-> 0, idx |-> i] : i \in {0, 1} }
    \cup { [name |-> "g_pll_lock", arg |-> 0, idx |-> 0] }

ReadCall ==
    /\ CanEnterIoctl
    /\ \E o \in ReadInputs :
         /\ EnterIoctl(o)
         /\ IF o.idx # 0 THEN Return("ioctl", "ret", EINVAL)
            ELSE Goto("ioctl", "rd") /\ UNCHANGED ret
    /\ UNCHANGED << cfgVars, radioVars, pmVars, busVars, tuned, newband, out,
                    tbl, istep >>

(* one regmap_read: every register is volatile, so it reaches the device *)
ReadStep ==
    /\ InIoctl("rd")
    /\ maplock = "free"
    /\ LET plan == ReadPlan(op, band)
           i == Len(log["ioctl"]) + 1
           a == plan[i]
       IN \E ok \in BOOLEAN :
          \E v \in (IF IsStatusReg(a) THEN StatusVals ELSE {dev[a]}) :
            /\ BusRead("ioctl", "read", a, v, ok)
            /\ IF ~ok THEN Return("ioctl", "ret", EIO) /\ UNCHANGED out
               ELSE IF i < Len(plan) THEN UNCHANGED << pc, ret, out >>
               ELSE /\ Return("ioctl", "ret", 0)
                    /\ out' = ReadResult(op, band,
                                [j \in 1..Len(plan) |->
                                   IF j = i THEN v ELSE log["ioctl"][j].v])
    /\ UNCHANGED << cfgVars, radioVars, pmVars, maplock, tmp, op, entry, tuned,
                    newband, calls, mutex, tbl, istep >>

(* ------------------------------------------------------------------ *)
(* Controls: kt0913_s_ctrl and kt0913_ioctl_vidioc_s_tuner             *)
(* ------------------------------------------------------------------ *)
V4L2_DEEMPHASIS_DISABLED == 0
V4L2_DEEMPHASIS_50_uS == 1
V4L2_DEEMPHASIS_75_uS == 2

Field(a, m, v) == [valid |-> TRUE, a |-> a, m |-> m, v |-> v]

NoField == [valid |-> FALSE, a |-> 0, m |-> 0, v |-> 0]

(* __kt0913_set_mute *)
kt0913_set_mute(on) ==
    Field(KT0913_REG_VOLUME, KT0913_VOLUME_DMUTE_MASK,
          IF on # 0 THEN KT0913_VOLUME_DMUTE_ON ELSE KT0913_VOLUME_DMUTE_OFF)

(* __kt0913_set_deemphasis *)
kt0913_set_deemphasis(deemp) ==
    IF deemp = V4L2_DEEMPHASIS_75_uS THEN
        Field(KT0913_REG_VOLUME, KT0913_VOLUME_DE_MASK, KT0913_VOLUME_DE_75US)
    ELSE IF deemp = V4L2_DEEMPHASIS_50_uS THEN
        Field(KT0913_REG_VOLUME, KT0913_VOLUME_DE_MASK, KT0913_VOLUME_DE_50US)
    ELSE NoField

(* an s32 passed as the unsigned int val of regmap_update_bits: of its
   two's-complement bits the 16 low ones can reach the register *)
RegVal(v) == v % 65536

(* __kt0913_set_volume: volume = (volume / 2) + 31, with no check of the
   range of volume *)
kt0913_set_volume_no_offset(volume) ==
    Field(KT0913_REG_RXCFG, KT0913_RXCFGA_VOLUME_MASK, RegVal(CDiv(volume, 2)))

kt0913_set_volume(volume) ==
    Field(KT0913_REG_RXCFG, KT0913_RXCFGA_VOLUME_MASK, RegVal(CDiv(volume, 2) + 31))

(* __kt0913_set_standby *)
kt0913_set_standby(standby) ==
    Field(KT0913_REG_RXCFG, KT0913_RXCFGA_STDBY_MASK,
          IF standby THEN KT0913_RXCFGA_STDBY_ON ELSE KT0913_RXCFGA_STDBY_OFF)

(* __kt0913_set_cfg_stereo_enabled *)
kt0913_set_cfg_stereo_enabled(stereo) ==
    Field(KT0913_REG_DSPCFGA, KT0913_DSPCFGA_MONO_MASK,
          IF stereo THEN KT0913_DSPCFGA_MONO_OFF ELSE KT0913_DSPCFGA_MONO_ON)

(* __kt0913_set_au_gain *)
kt0913_set_au_gain_default_0db(gain) ==
    Field(KT0913_REG_AMSYSCFG, KT0913_AMSYSCFG_AU_GAIN_MASK,
          IF gain = 6 THEN KT0913_AMSYSCFG_AU_GAIN_6DB
          ELSE IF gain = 3 THEN KT0913_AMSYSCFG_AU_GAIN_3DB
          ELSE IF gain = 0 - 3 THEN KT0913_AMSYSCFG_AU_GAIN_MIN_3DB
          ELSE KT0913_AMSYSCFG_AU_GAIN_0DB)

kt0913_set_au_gain(gain) ==
    IF gain = 6 THEN
        Field(KT0913_REG_AMSYSCFG, KT0913_AMSYSCFG_AU_GAIN_MASK, KT0913_AMSYSCFG_AU_GAIN_6DB)
    ELSE IF gain = 3 THEN
        Field(KT0913_REG_AMSYSCFG, KT0913_AMSYSCFG_AU_GAIN_MASK, KT0913_AMSYSCFG_AU_GAIN_3DB)
    ELSE IF gain = 0 THEN
        Field(KT0913_REG_AMSYSCFG, KT0913_AMSYSCFG_AU_GAIN_MASK, KT0913_AMSYSCFG_AU_GAIN_0DB)
    ELSE IF gain = 0 - 3 THEN
        Field(KT0913_REG_AMSYSCFG, KT0913_AMSYSCFG_AU_GAIN_MASK,
              KT0913_AMSYSCFG_AU_GAIN_MIN_3DB)
    ELSE NoField

(* kt0913_ioctl_vidioc_s_tuner: index, audmode and AM checks *)
kt0913_s_tuner_no_am_check(index, audmode, b) ==
    IF index > 0 THEN NoField
    ELSE IF audmode # V4L2_TUNER_MODE_MONO /\ audmode # V4L2_TUNER_MODE_STEREO
    THEN NoField
    ELSE kt0913_set_cfg_stereo_enabled(audmode = V4L2_TUNER_MODE_STEREO)

kt0913_s_tuner(index, audmode, b) ==
    IF index > 0 THEN NoField
    ELSE IF audmode # V4L2_TUNER_MODE_MONO /\ audmode # V4L2_TUNER_MODE_STEREO
    THEN NoField
    ELSE IF b = BAND_AM /\ audmode # V4L2_TUNER_MODE_MONO THEN NoField
    ELSE kt0913_set_cfg_stereo_enabled(audmode = V4L2_TUNER_MODE_STEREO)

(* the field update a control ioctl asks for; invalid: return -EINVAL *)
CtrlUpdate(o, b) ==
    IF o.name = "s_mute" THEN kt0913_set_mute(o.arg)
    ELSE IF o.name = "s_volume" THEN kt0913_set_volume(o.arg)
    ELSE IF o.name = "s_gain" THEN kt0913_set_au_gain(o.arg)
    ELSE IF o.name = "s_deemphasis" THEN kt0913_set_deemphasis(o.arg)
    ELSE IF o.name = "s_tuner" THEN kt0913_s_tuner(o.idx, o.arg, b)
    ELSE NoField

(* ctrl->val as kt0913_s_ctrl receives it.  The controls are declared as
   mute 0..1, volume -60..0 in steps of 2, gain -3..6 in steps of 3 and the
   de-emphasis menu 0..2; the setters are also exercised just outside the
   declared volume range and on a gain between two steps, since they are
   where a value would have to be refused. *)
CtrlInputs ==
    { [name |-> "s_mute", arg |-> v, idx |-> 0] : v \in {0, 1} }
    \cup { [name |-> "s_volume", arg |-> v, idx |-> 0] :
             v \in {0 - 64, 0 - 60, 0 - 30, 0, 2} }
    \cup { [name |-> "s_gain", arg |-> v, idx |-> 0] : v \in {0 - 3, 0, 1, 3, 6} }
    \cup { [name |-> "s_deemphasis", arg |-> v, idx |-> 0] : v \in {0, 1, 2} }
    \cup { [name |-> "s_tuner", arg |-> v, idx |-> 0] : v \in {0, 1, 3} }
    \cup { [name |-> "s_tuner", arg |-> 1, idx |-> 1] }

CtrlCall ==
    /\ CanEnterIoctl
    /\ \E o \in CtrlInputs :
         /\ EnterIoctl(o)
         /\ IF CtrlUpdate(o, band).valid THEN Goto("ioctl", "upd_r") /\ UNCHANGED ret
            ELSE Return("ioctl", "ret", EINVAL)
    /\ UNCHANGED << cfgVars, radioVars, pmVars, busVars, tuned, newband, out,
                    tbl, istep >>

CtrlUpdateRead ==
    /\ InIoctl("upd_r")
    /\ LET u == CtrlUpdate(op, band) IN
       \E ok \in BOOLEAN :
         /\ UpdateBitsRead("ioctl", "ctrl", u.a, u.m, u.v, ok)
         /\ IF ~ok THEN Return("ioctl", "ret", EIO)
            ELSE IF UpdateNeedsWrite(dev[u.a], u.m, u.v)
                 THEN Goto("ioctl", "upd_w") /\ UNCHANGED ret
            ELSE Return("ioctl", "ret", 0)
    /\ UNCHANGED << cfgVars, radioVars, pmVars, ioctlVars, mutex, tbl, istep >>

CtrlUpdateWrite ==
    /\ InIoctl("upd_w")
    /\ LET u == CtrlUpdate(op, band) IN
       \E ok \in BOOLEAN :
         /\ UpdateBitsWrite("ioctl", "ctrl", u.a, u.m, u.v, ok)
         /\ Return("ioctl", "ret", IF ok THEN 0 ELSE EIO)
    /\ UNCHANGED << cfgVars, radioVars, pmVars, ioctlVars, mutex, tbl, istep >>

(* ------------------------------------------------------------------ *)
(* kt0913_ioctl_vidioc_enum_freq_bands (band->tuner = idx, index = arg) *)
(* ------------------------------------------------------------------ *)
EnumInputs ==
    { [name |-> "enum_freq_bands", arg |-> i, idx |-> 0] : i \in {0, 1, 2} }
    \cup { [name |-> "enum_freq_bands", arg |-> 0, idx |-> 1] }

EnumBand_ignores_campus(index) ==
    IF index = 0 THEN BAND_FM
    ELSE IF index = 1 THEN BAND_AM
    ELSE NoBand

EnumBand(index) ==
    IF index = 0 THEN (IF campus # 0 THEN BAND_FM_CAMUS ELSE BAND_FM)
    ELSE IF index = 1 THEN BAND_AM
    ELSE NoBand

EnumFreqBands ==
    /\ CanEnterIoctl
    /\ \E o \in EnumInputs :
         /\ EnterIoctl(o)
         /\ IF o.idx # 0 \/ EnumBand(o.arg) = NoBand THEN
               Return("ioctl", "ret", EINVAL) /\ UNCHANGED out
            ELSE
               /\ Return("ioctl", "ret", 0)
               /\ out' = [val |-> EnumBand(o.arg),
                          sub |-> rangelow(EnumBand(o.arg)),
                          mode |-> rangehigh(EnumBand(o.arg))]
    /\ UNCHANGED << cfgVars, radioVars, pmVars, busVars, tuned, newband, tbl, istep >>

(* ------------------------------------------------------------------ *)
(* Standby transitions: runtime PM callbacks and kt0913_remove         *)
(* ------------------------------------------------------------------ *)
(* Neither the PM callbacks nor kt0913_remove take radio->mutex: they call
   __kt0913_set_standby directly.  The PM core calls the callbacks one at a
   time, and not while the driver core runs kt0913_remove. *)
StandbyRead(t, standby, ok) ==
    LET u == kt0913_set_standby(standby) IN
    UpdateBitsRead(t, "standby", u.a, u.m, u.v, ok)

StandbyWrite(t, standby, ok) ==
    LET u == kt0913_set_standby(standby) IN
    UpdateBitsWrite(t, "standby", u.a, u.m, u.v, ok)

StandbyNeedsWrite(standby) ==
    LET u == kt0913_set_standby(standby) IN UpdateNeedsWrite(dev[u.a], u.m, u.v)

PmCanRun == pm_enabled /\ pc["remove"] = "idle"

(* kt0913_i2c_pm_runtime_suspend: __kt0913_set_standby(radio, true) *)
PmSuspendRead ==
    /\ pc["pm"] = "idle" /\ PmCanRun /\ ~pm_suspended
    /\ \E ok \in BOOLEAN :
         /\ StandbyRead("pm", TRUE, ok)
         /\ IF ok /\ StandbyNeedsWrite(TRUE)
            THEN Goto("pm", "suspend_w") /\ UNCHANGED pm_suspended
            ELSE UNCHANGED pc /\ pm_suspended' = ok
    /\ UNCHANGED << cfgVars, radioVars, ioctlVars, pm_enabled, registered,
                    mutex, ret, tbl, istep >>

PmSuspendWrite ==
    /\ pc["pm"] = "suspend_w"
    /\ \E ok \in BOOLEAN :
         /\ StandbyWrite("pm", TRUE, ok)
         /\ pm_suspended' = ok
    /\ Goto("pm", "idle")
    /\ UNCHANGED << cfgVars, radioVars, ioctlVars, pm_enabled, registered,
                    mutex, ret, tbl, istep >>

(* kt0913_i2c_pm_runtime_resume: __kt0913_set_standby(radio, false) *)
PmResumeRead ==
    /\ pc["pm"] = "idle" /\ PmCanRun /\ pm_suspended
    /\ \E ok \in BOOLEAN :
         /\ StandbyRead("pm", FALSE, ok)
         /\ IF ok /\ StandbyNeedsWrite(FALSE)
            THEN Goto("pm", "resume_w") /\ UNCHANGED pm_suspended
            ELSE UNCHANGED pc /\ pm_suspended' = ~ok
    /\ UNCHANGED << cfgVars, radioVars, ioctlVars, pm_enabled, registered,
                    mutex, ret, tbl, istep >>

PmResumeWrite ==
    /\ pc["pm"] = "resume_w"
    /\ \E ok \in BOOLEAN :
         /\ StandbyWrite("pm", FALSE, ok)
         /\ pm_suspended' = ~ok
    /\ Goto("pm", "idle")
    /\ UNCHANGED << cfgVars, radioVars, ioctlVars, pm_enabled, registered,
                    mutex, ret, tbl, istep >>

(* kt0913_remove: __kt0913_set_standby(radio, true), result ignored.  The
   driver core has resumed the device before it calls remove. *)
RemoveStandbyRead ==
    /\ pc["remove"] = "idle" /\ pc["probe"] = "p_done"
    /\ pc["pm"] = "idle" /\ ~pm_suspended
    /\ \E ok \in BOOLEAN :
         /\ StandbyRead("remove", TRUE, ok)
         /\ Goto("remove", IF ok /\ StandbyNeedsWrite(TRUE)
                           THEN "rm_standby_w" ELSE "rm_unregister")
    /\ UNCHANGED << cfgVars, radioVars, ioctlVars, pmVars, mutex, ret, tbl, istep >>

RemoveStandbyWrite ==
    /\ pc["remove"] = "rm_standby_w"
    /\ \E ok \in BOOLEAN : StandbyWrite("remove", TRUE, ok)
    /\ Goto("remove", "rm_unregister")
    /\ UNCHANGED << cfgVars, radioVars, ioctlVars, pmVars, mutex, ret, tbl, istep >>

(* pm_runtime_disable, pm_runtime_set_suspended, video_unregister_device *)
RemoveUnregister ==
    /\ pc["remove"] = "rm_unregister"
    /\ Goto("remove", "rm_done")
    /\ pm_enabled' = FALSE
    /\ pm_suspended' = TRUE
    /\ registered' = FALSE
    /\ UNCHANGED << cfgVars, radioVars, ioctlVars, busVars, mutex, ret, tbl, istep >>

(* ------------------------------------------------------------------ *)
(* The driver: attach, then ioctls, PM callbacks and removal           *)
(* ------------------------------------------------------------------ *)
Ioctl ==
    \/ SFrequency
    \/ SFreqModeRead
    \/ SFreqModeWrite
    \/ SFreqWrite
    \/ ReadCall
    \/ ReadStep
    \/ CtrlCall
    \/ CtrlUpdateRead
    \/ CtrlUpdateWrite
    \/ EnumFreqBands
    \/ IoctlReturn

Standby ==
    \/ RemoveStandbyRead
    \/ RemoveStandbyWrite
    \/ RemoveUnregister
    \/ PmSuspendRead
    \/ PmSuspendWrite
    \/ PmResumeRead
    \/ PmResumeWrite

Next == Probe \/ Ioctl \/ Standby

(* two sites: no device-tree properties and the campus band off, or both
   properties at their clamp and the campus band on *)
Init ==
    \/ InitWith({0 - 1}, {0 - 1}, {0}) /\ campus = 0
    \/ InitWith({AntiPopMax}, {RefclkMax}, {0}) /\ campus = 1

Spec == Init /\ [][Next]_vars

(* ------------------------------------------------------------------ *)
(* Claims about __kt0913_init (checked under SpecAttach)               *)
(* ------------------------------------------------------------------ *)
InitLog == SelectSeq(log["probe"], LAMBDA e : e.s # "chipid")

RECURSIVE StepsOf(_)
StepsOf(L) ==
    IF Len(L) = 0 THEN << >>
    ELSE IF Len(L) = 1 THEN << L[1].s >>
    ELSE IF L[1].s = L[2].s THEN StepsOf(Tail(L))
    ELSE << L[1].s >> \o StepsOf(Tail(L))

IsPrefix(p, q) == Len(p) <= Len(q) /\ \A i \in 1..Len(p) : p[i] = q[i]

ExpectedInitSteps ==
    << "table", "antipop", "refclk" >>
    \o (IF campus # 0 THEN << "campus" >> ELSE << >>)
    \o << "mute" >>

FieldOf(step) ==
    IF step = "antipop" THEN << KT0913_REG_VOLUME, 48 >>
    ELSE IF step = "refclk" THEN << KT0913_REG_AMSYSCFG, 3840 >>
    ELSE IF step = "campus" THEN << KT0913_REG_LOCFGC, 8 >>
    ELSE << KT0913_REG_VOLUME, 8192 >>

NTable == Len(kt0913_init_regs_to_defaults)

(* C8: when __kt0913_init returns, the accesses it issued are, in order: the
   entries of the default table in list order, then the anti-pop update of
   VOLUME, then the reference-clock update of AMSYSCFG, then (only with the
   campus band enabled) the campus-band update of LOCFGC, then the mute
   update of VOLUME; each update is a read followed by at most one write that
   changes only its field; a failed access is the last access of the call and
   makes it return the error, and a call that returns 0 has run every step. *)
C8_InitOrder ==
    pc["probe"] = "i_ret" =>
      LET L == InitLog
          n == Len(L)
      IN
      /\ IsPrefix(StepsOf(L), ExpectedInitSteps)
      /\ \A i \in 1..n :
           /\ (i < n => L[i].ok)
           /\ (i <= NTable =>
                 /\ L[i].s = "table" /\ L[i].k = "w"
                 /\ << L[i].a, L[i].v >> = kt0913_init_regs_to_defaults[i])
           /\ (i > NTable =>
                 /\ L[i].s # "table"
                 /\ L[i].a = FieldOf(L[i].s)[1]
                 /\ (L[i].k = "r" => i = NTable + 1 \/ L[i - 1].s # L[i].s)
                 /\ (L[i].k = "w" =>
                       /\ L[i - 1].s = L[i].s /\ L[i - 1].k = "r"
                       /\ BitAnd(L[i].v, BitNot16(FieldOf(L[i].s)[2]))
                            = BitAnd(L[i - 1].v, BitNot16(FieldOf(L[i].s)[2]))))
      /\ (ret["probe"] = 0 <=> (n > 0 /\ L[n].ok))
      /\ (ret["probe"] = 0 => StepsOf(L) = ExpectedInitSteps /\ n > NTable)
      /\ (ret["probe"] # 0 => n > 0 /\ ~L[n].ok)

(* an init, with the campus band enabled, that ran the table and the
   anti-pop update and failed on the write of the reference-clock step *)
C8_Witness ==
    /\ pc["probe"] = "i_ret"
    /\ ret["probe"] # 0
    /\ campus = 1
    /\ Len(InitLog) > NTable + 1
    /\ InitLog[Len(InitLog)].s = "refclk"
    /\ InitLog[Len(InitLog)].k = "w"

(* C9: when __kt0913_init returns 0 the in-memory band is FM (0), the
   AMSYSCFG mode bit is FM, the VOLUME mute bit is in the muted encoding, the
   VOLUME anti-pop field holds the configured level, the AMSYSCFG refclk
   field holds the configured selector, the LOCFGC campus bit is set iff the
   campus band is enabled, the RXCFG standby bit is clear, and the frequency
   get_frequency computes is 86000*16. *)
C9_AfterInit ==
    (pc["probe"] = "i_ret" /\ ret["probe"] = 0) =>
      /\ band = BAND_FM
      /\ BitAnd(dev[KT0913_REG_AMSYSCFG], 32768) = 0
      /\ BitAnd(dev[KT0913_REG_VOLUME], 8192) = 0
      /\ audio_anti_pop \in 0..3
      /\ (dt_anti_pop \in 0..3 => audio_anti_pop = dt_anti_pop)
      /\ BitAnd(dev[KT0913_REG_VOLUME], 48) = audio_anti_pop * 16
      /\ refclock_val \in 0..9
      /\ (dt_refclk \in 0..9 => refclock_val = dt_refclk)
      /\ BitAnd(dev[KT0913_REG_AMSYSCFG], 3840) = refclock_val * 256
      /\ (BitAnd(dev[KT0913_REG_LOCFGC], 8) = 8 <=> campus # 0)
      /\ BitAnd(dev[KT0913_REG_RXCFG], 4096) = 0
      /\ GFrequencyValue(band, dev[FreqReg(band)]) = 86000 * 16

C9_Witness ==
    /\ pc["probe"] = "i_ret"
    /\ ret["probe"] = 0
    /\ campus = 1
    /\ audio_anti_pop = 3
    /\ refclock_val = 9
    /\ dt_refclk = 10

(* the bits of a default-table register that init steps (b)-(e) overwrite *)
OverwrittenByInit(a) ==
    IF a = KT0913_REG_VOLUME THEN 48 + 8192
    ELSE IF a = KT0913_REG_AMSYSCFG THEN 3840
    ELSE IF a = KT0913_REG_LOCFGC THEN 8
    ELSE 0

(* C10: when __kt0913_init returns 0, every entry of the default table is in
   effect: the register at its address holds the entry's value in every bit
   that the later field updates of init do not overwrite. *)
C10_TableInEffect ==
    (pc["probe"] = "i_ret" /\ ret["probe"] = 0) =>
      \A i \in 1..NTable :
        LET e == kt0913_init_regs_to_defaults[i] IN
        BitAnd(dev[e[1]], BitNot16(OverwrittenByInit(e[1])))
          = BitAnd(e[2], BitNot16(OverwrittenByInit(e[1])))

(* ------------------------------------------------------------------ *)
(* Claims about set_frequency (checked under Spec)                     *)
(* ------------------------------------------------------------------ *)
IoLog == log["ioctl"]

(* a set_frequency call that passed the argument and range checks *)
SFreqAccepted ==
    /\ op.name = "s_frequency"
    /\ ~(pc["ioctl"] = "ret" /\ ret["ioctl"] = EINVAL)

IsFreqReg(a) == a \in {KT0913_REG_TUNE, KT0913_REG_AMCHAN}

ModeBit(v) == BitAnd(v, 32768)

ModeBitFor(b) == IF b = BAND_AM THEN 32768 ELSE 0

(* the mode update at the head of log L returned success *)
ModeUpdateSucceeded(L) ==
    /\ Len(L) >= 1
    /\ L[1].k = "r" /\ L[1].a = KT0913_REG_AMSYSCFG /\ L[1].ok
    /\ \/ ModeBit(L[1].v) = ModeBitFor(newband)
       \/ /\ Len(L) >= 2
          /\ L[2].k = "w" /\ L[2].a = KT0913_REG_AMSYSCFG /\ L[2].ok
          /\ ModeBit(L[2].v) = ModeBitFor(newband)
          /\ BitAnd(L[2].v, 32767) = BitAnd(L[1].v, 32767)

(* C1: in set_frequency, when the classified band differs from the band at
   entry, the accesses start with the mode-bit update of AMSYSCFG (mask
   0x8000), a frequency write to TUNE/AMCHAN comes only after that update
   has succeeded, and radio->band differs from its value at entry only after
   the update succeeded (and then equals the classified band); when the
   classified band equals the band at entry, no access to AMSYSCFG is made
   and the frequency write is the only access. *)
C1_ModeBeforeFrequency ==
    SFreqAccepted =>
      LET L == IoLog IN
      IF entry.band # newband THEN
        /\ (Len(L) >= 1 => L[1].k = "r" /\ L[1].a = KT0913_REG_AMSYSCFG)
        /\ (pc["ioctl"] = "ret" => Len(L) >= 1)
        /\ \A i \in 1..Len(L) :
             /\ (L[i].a = KT0913_REG_AMSYSCFG => i <= 2)
             /\ (IsFreqReg(L[i].a) =>
                   /\ L[i].k = "w" /\ i = Len(L)
                   /\ ModeUpdateSucceeded(L)
                   /\ band = newband
                   /\ L[i].a = FreqReg(newband))
        /\ (band # entry.band => band = newband /\ ModeUpdateSucceeded(L))
        /\ (pc["ioctl"] = "sf_freq" => band = newband /\ ModeUpdateSucceeded(L))
      ELSE
        /\ band = entry.band
        /\ \A i \in 1..Len(L) : L[i].a # KT0913_REG_AMSYSCFG
        /\ Len(L) <= 1
        /\ (Len(L) = 1 => L[1].k = "w" /\ L[1].a = FreqReg(band))
        /\ (pc["ioctl"] = "ret" => Len(L) = 1)

(* a tune from FM to AM that read and wrote the mode bit, then wrote AMCHAN *)
C1_Witness ==
    /\ op.name = "s_frequency" /\ pc["ioctl"] = "ret" /\ ret["ioctl"] = 0
    /\ entry.band = BAND_FM /\ newband = BAND_AM /\ band = BAND_AM
    /\ Len(IoLog) = 3
    /\ IoLog[3].a = KT0913_REG_AMCHAN

(* set_frequency is between its successful mode-register write and its
   frequency-register write *)
TuneWindow ==
    /\ op.name = "s_frequency"
    /\ pc["ioctl"] = "sf_freq"
    /\ \E i \in 1..Len(IoLog) :
         IoLog[i].k = "w" /\ IoLog[i].a = KT0913_REG_AMSYSCFG /\ IoLog[i].ok

(* thread t is about to issue the write of a standby update *)
StandbyWritePending(t) ==
    pc[t] \in {"suspend_w", "resume_w", "rm_standby_w"}

(* C2: no register write issued by another caller occurs between the
   mode-register write and the frequency-register write of one
   set_frequency call. *)
C2_NoForeignWriteInTune ==
    [][TuneWindow =>
         \A t \in {"pm", "remove"} : StandbyWritePending(t) => pc'[t] = pc[t]]_vars

(* the ioctl in progress has issued a register access and has more to issue *)
IoctlInSequence ==
    /\ pc["ioctl"] \in {"sf_mode_w", "sf_freq", "upd_w", "rd"}
    /\ Len(IoLog) >= 1

(* C3: a standby transition (runtime suspend, runtime resume, removal) is
   never inside its update of RXCFG while an ioctl holds radio->mutex and
   is inside its own register sequence. *)
C3_StandbyExcludesIoctl ==
    \A t \in {"pm", "remove"} :
      StandbyWritePending(t) => ~(mutex = "ioctl" /\ IoctlInSequence)

(* f lies in no band range that is enabled *)
InNoEnabledRange(f) ==
    /\ ~(500 * 16 <= f /\ f <= 1710 * 16)
    /\ ~(64000 * 16 <= f /\ f <= 110000 * 16)
    /\ ~(campus # 0 /\ 32000 * 16 <= f /\ f <= 110000 * 16)

(* C4: a set_frequency request with frequency 0, or with a frequency in no
   enabled band range, has failed as soon as it is entered, has issued no
   register access, and leaves radio->band and the registers unchanged. *)
C4_RejectedTouchesNothing ==
    (op.name = "s_frequency" /\ (op.arg = 0 \/ InNoEnabledRange(op.arg))) =>
      /\ pc["ioctl"] = "ret"
      /\ ret["ioctl"] = EINVAL
      /\ IoLog = << >>
      /\ band = entry.band
      /\ dev[KT0913_REG_AMSYSCFG] = entry.amsyscfg
      /\ dev[KT0913_REG_TUNE] = entry.tune
      /\ dev[KT0913_REG_AMCHAN] = entry.amchan

(* 40 MHz rejected with the campus band off, while tuned to AM *)
C4_Witness ==
    /\ op.name = "s_frequency" /\ op.arg = 40000 * 16 /\ campus = 0
    /\ pc["ioctl"] = "ret" /\ ret["ioctl"] = EINVAL
    /\ band = BAND_AM

(* the band the specification assigns to a non-zero frequency *)
SpecBand(f) ==
    IF 500 * 16 <= f /\ f <= 1710 * 16 THEN BAND_AM
    ELSE IF 64000 * 16 <= f /\ f <= 110000 * 16 THEN BAND_FM
    ELSE IF campus # 0 /\ 32000 * 16 <= f /\ f <= 110000 * 16 THEN BAND_FM_CAMUS
    ELSE NoBand

(* C5: for a non-zero frequency f, set_frequency classifies f as AM if
   500*16 <= f <= 1710*16, else as FM if 64000*16 <= f <= 110000*16, else as
   FM_EXTENDED only with the campus band enabled and 32000*16 <= f <=
   110000*16, else rejects it; 40 MHz is rejected with the flag off and
   classified FM_EXTENDED with it on. *)
C5_Classification ==
    (op.name = "s_frequency" /\ op.idx = 0 /\ op.arg # 0) =>
      /\ (SpecBand(op.arg) = NoBand => ~SFreqAccepted)
      /\ (SpecBand(op.arg) # NoBand => SFreqAccepted /\ newband = SpecBand(op.arg))
      /\ (op.arg = 40000 * 16 /\ campus = 0 => ~SFreqAccepted)
      /\ (op.arg = 40000 * 16 /\ campus # 0 =>
            SFreqAccepted /\ newband = BAND_FM_CAMUS)

(* 40 MHz accepted as FM_EXTENDED with the campus band enabled *)
C5_Witness ==
    /\ op.name = "s_frequency" /\ op.arg = 40000 * 16 /\ campus = 1
    /\ pc["ioctl"] = "ret" /\ ret["ioctl"] = 0
    /\ newband = BAND_FM_CAMUS /\ band = BAND_FM_CAMUS

(* C6: after a successful set_frequency(f) the register written last is
   AMCHAN with 0x8000 | (f/16) when the target band is AM and TUNE with
   0x8000 | ((f/16)/50) otherwise, and the register holds that value; a
   successful get_frequency after it, with no other set_frequency call in
   between, returns 16*(f/16) on AM and 16*50*((f/16)/50) on the FM bands;
   set_frequency(1000*16) from the FM state sets the mode bit to AM and
   writes AMCHAN = 0x8000 | 1000. *)
C6_TuneRoundTrip ==
    /\ (op.name = "s_frequency" /\ pc["ioctl"] = "ret" /\ ret["ioctl"] = 0) =>
         LET w == IoLog[Len(IoLog)]
             f == op.arg
         IN /\ w.k = "w" /\ w.ok
            /\ tuned = f
            /\ IF newband = BAND_AM
               THEN w.a = KT0913_REG_AMCHAN /\ w.v = BitOr(32768, f \div 16)
               ELSE w.a = KT0913_REG_TUNE /\ w.v = BitOr(32768, (f \div 16) \div 50)
            /\ dev[w.a] = w.v
            /\ (f = 1000 * 16 /\ entry.band = BAND_FM =>
                  /\ ModeBit(dev[KT0913_REG_AMSYSCFG]) = 32768
                  /\ dev[KT0913_REG_AMCHAN] = 32768 + 1000)
    /\ (op.name = "g_frequency" /\ pc["ioctl"] = "ret" /\ ret["ioctl"] = 0
          /\ tuned # 0) =>
         out.val = IF band = BAND_AM THEN 16 * (tuned \div 16)
                   ELSE 16 * 50 * ((tuned \div 16) \div 50)

(* get_frequency returns 1000*16 after a tune to an AM frequency off the grid *)
C6_Witness ==
    /\ op.name = "g_frequency" /\ pc["ioctl"] = "ret" /\ ret["ioctl"] = 0
    /\ tuned = 1000 * 16 + 5
    /\ band = BAND_AM
    /\ out.val = 1000 * 16
    /\ dev[KT0913_REG_AMCHAN] = 32768 + 1000

(* C7: a transport failure during set_frequency is the last access of the
   call and the call returns the error; a failure of the mode-bit update
   leaves radio->band and the mode bit unchanged and no frequency write is
   issued; a failure of the frequency write after a successful band change
   leaves the mode bit and radio->band at the new band while the frequency
   registers still hold their previous values. *)
C7_FailureAbandons ==
    op.name = "s_frequency" =>
      LET L == IoLog
          n == Len(L)
      IN
      /\ \A i \in 1..n :
           ~L[i].ok => i = n /\ pc["ioctl"] = "ret" /\ ret["ioctl"] = EIO
      /\ (pc["ioctl"] = "ret" /\ ret["ioctl"] = EIO) => (n >= 1 /\ ~L[n].ok)
      /\ (n >= 1 /\ ~L[n].ok /\ L[n].a = KT0913_REG_AMSYSCFG) =>
           /\ band = entry.band
           /\ ModeBit(dev[KT0913_REG_AMSYSCFG]) = ModeBit(entry.amsyscfg)
           /\ \A i \in 1..n : ~IsFreqReg(L[i].a)
      /\ (n >= 1 /\ ~L[n].ok /\ IsFreqReg(L[n].a)) =>
           /\ band = newband
           /\ ModeBit(dev[KT0913_REG_AMSYSCFG]) = ModeBitFor(newband)
           /\ dev[KT0913_REG_TUNE] = entry.tune
           /\ dev[KT0913_REG_AMCHAN] = entry.amchan

(* the frequency write failed after the band had been changed from FM to AM *)
C7_Witness ==
    /\ op.name = "s_frequency" /\ pc["ioctl"] = "ret" /\ ret["ioctl"] = EIO
    /\ entry.band = BAND_FM /\ band = BAND_AM
    /\ Len(IoLog) = 3 /\ ~IoLog[3].ok
    /\ ModeBit(dev[KT0913_REG_AMSYSCFG]) = 32768
    /\ dev[KT0913_REG_AMCHAN] = 504

(* ------------------------------------------------------------------ *)
(* Claims about attach and the register map (checked under SpecAttach) *)
(* ------------------------------------------------------------------ *)
(* the CHIP_ID read of this attach succeeded and returned v *)
ChipIdRead(v) ==
    /\ Len(log["probe"]) >= 1
    /\ log["probe"][1].s = "chipid"
    /\ log["probe"][1].ok
    /\ log["probe"][1].v = v

(* no register of the device has been written since power-on *)
DeviceUntouched == \A r \in Regs : dev[r] = dev[KT0913_REG_TUNE]

(* C11: if the CHIP_ID read at attach returns a value other than 0x544B,
   attach has failed with -ENODEV, the CHIP_ID read is the only register
   access of the attach, no register has been written, and the device is
   not in service (no regmap, not registered, runtime PM not enabled). *)
C11_ChipIdMismatch ==
    (\E v \in ChipIdVals : v # 21579 /\ ChipIdRead(v)) =>
      /\ pc["probe"] = "p_failed"
      /\ ret["probe"] = ENODEV
      /\ Len(log["probe"]) = 1
      /\ DeviceUntouched
      /\ ~regmap /\ ~registered /\ ~pm_enabled

(* the read returned the id with its bytes swapped and attach gave up *)
C11_Witness ==
    /\ ChipIdRead(19284)
    /\ pc["probe"] = "p_failed"
    /\ ret["probe"] = ENODEV

(* the steps of __kt0913_init that are a regmap_update_bits *)
InitUpdateSteps == {"antipop", "refclk", "campus", "mute"}

(* C13: once a regmap_update_bits on a register has succeeded during init,
   a later read of that register (nothing else changes the device during
   attach) is served from the register cache: no transport read of that
   register is issued. *)
C13_ReadServedFromCache ==
    LET L == log["probe"] IN
    \A i \in 1..Len(L) : \A j \in 1..Len(L) :
      (/\ i < j
       /\ L[i].s \in InitUpdateSteps /\ L[i].ok
       /\ L[j].s \in InitUpdateSteps /\ L[j].s # L[i].s
       /\ L[j].a = L[i].a)
      => L[j].k # "r"

(* ------------------------------------------------------------------ *)
(* Claims about the controls (checked under Spec)                      *)
(* ------------------------------------------------------------------ *)
CtrlNames == {"s_mute", "s_deemphasis", "s_volume", "s_gain", "s_tuner"}

(* register and mask of the field each control operation owns *)
OwnField(name) ==
    IF name = "s_mute" THEN [a |-> 4, m |-> 8192]
    ELSE IF name = "s_deemphasis" THEN [a |-> 4, m |-> 2048]
    ELSE IF name = "s_volume" THEN [a |-> 15, m |-> 31]
    ELSE IF name = "s_gain" THEN [a |-> 22, m |-> 192]
    ELSE [a |-> 5, m |-> 32768]

(* this step is a register access of the control ioctl in progress *)
CtrlAccessStep ==
    /\ op.name \in CtrlNames
    /\ Len(log'["ioctl"]) = Len(log["ioctl"]) + 1

(* this step belongs to a standby transition of thread t *)
StandbyStep(t) ==
    \/ t \in {"pm", "remove"} /\ pc'[t] # pc[t]
    \/ t = "pm" /\ pm_suspended' # pm_suspended

(* only the bits of mask m in register a differ between dev and dev' *)
OnlyFieldChanges(a, m) ==
    /\ \A r \in Regs \ {a} : dev'[r] = dev[r]
    /\ BitAnd(dev'[a], 65535 - m) = BitAnd(dev[a], 65535 - m)
    /\ band' = band

(* C12: every register access of a control operation changes at most the
   operation's own field -- set_mute VOLUME bit 0x2000, set_deemphasis
   VOLUME bit 0x0800, set_volume RXCFG bits 0x001F, set_audio_gain AMSYSCFG
   bits 0x00C0, set_stereo_mode DSPCFGA bit 0x8000, and a standby
   transition RXCFG bit 0x1000 -- and leaves the other bits of that
   register, every other register and radio->band unchanged; a successful
   write leaves the register at (old & ~mask) | (new & mask). *)
C12_ControlFrame ==
    [][/\ CtrlAccessStep =>
            LET f == OwnField(op.name)
                e == log'["ioctl"][Len(log'["ioctl"])]
                new == CtrlUpdate(op, band).v
            IN /\ e.a = f.a
               /\ OnlyFieldChanges(f.a, f.m)
               /\ (e.k = "r" \/ ~e.ok) => dev' = dev
               /\ (e.k = "w" /\ e.ok) =>
                    dev'[f.a] = BitAnd(dev[f.a], 65535 - f.m) + BitAnd(new, f.m)
       /\ \A t \in {"pm", "remove"} :
            StandbyStep(t) => OnlyFieldChanges(15, 4096)
      ]_vars

(* set_volume(-30) has written field 16 into RXCFG and nothing else moved *)
C12_Witness ==
    /\ op.name = "s_volume" /\ op.arg = 0 - 30
    /\ pc["ioctl"] = "ret" /\ ret["ioctl"] = 0
    /\ Len(IoLog) = 2 /\ IoLog[2].k = "w" /\ IoLog[2].ok
    /\ dev[15] = 34816 + 16
    /\ dev[4] = 49280
    /\ band = entry.band

(* C14: set_volume with a value outside -60..0 fails with -EINVAL before
   any register access and leaves RXCFG unchanged. *)
C14_VolumeRangeChecked ==
    (op.name = "s_volume" /\ (op.arg < 0 - 60 \/ op.arg > 0)) =>
      /\ pc["ioctl"] = "ret"
      /\ ret["ioctl"] = EINVAL
      /\ IoLog = << >>

(* the volume values of the control: -60, -58, ..., 0 *)
VolumeDbs == { 2 * k - 60 : k \in 0..30 }

(* the RXCFG field __kt0913_set_volume asks for *)
VolumeField(db) == BitAnd(kt0913_set_volume(db).v, 31)

(* the field mapping of set_volume over the whole range of the control *)
VolumeMappingHolds ==
    /\ \A db \in VolumeDbs :
         /\ kt0913_set_volume(db).valid
         /\ kt0913_set_volume(db).a = 15
         /\ kt0913_set_volume(db).m = 31
         /\ kt0913_set_volume(db).v = db \div 2 + 31
         /\ VolumeField(db) = db \div 2 + 31
         /\ VolumeField(db) \in 1..31
    /\ VolumeField(0 - 60) = 1
    /\ VolumeField(0) = 31
    /\ \A d1 \in VolumeDbs : \A d2 \in VolumeDbs :
         d1 < d2 => VolumeField(d1) <= VolumeField(d2)

(* C15: for every db in {-60, -58, ..., 0} set_volume asks for the field
   db/2 + 31 in RXCFG bits 0x001F; the field lies in 1..31, is 1 for -60 and
   31 for 0, and is monotonic in db; after a successful set_volume(db) with
   such a db, RXCFG bits 0x001F hold db/2 + 31.  (The mapping is evaluated
   in the states in which a set_volume call has returned.) *)
C15_VolumeMapping ==
    (op.name = "s_volume" /\ op.arg \in VolumeDbs /\ pc["ioctl"] = "ret") =>
      /\ VolumeMappingHolds
      /\ ret["ioctl"] = 0 =>
           /\ dev[15] % 32 = op.arg \div 2 + 31
           /\ Len(IoLog) >= 1
           /\ IoLog[Len(IoLog)].a = 15
           /\ IoLog[Len(IoLog)].v % 32 = op.arg \div 2 + 31

(* set_volume(-60) has written field 1 *)
C15_Witness ==
    /\ op.name = "s_volume" /\ op.arg = 0 - 60
    /\ pc["ioctl"] = "ret" /\ ret["ioctl"] = 0
    /\ Len(IoLog) = 2 /\ IoLog[2].k = "w"
    /\ dev[15] % 32 = 1

(* the control call in progress was refused before any register access *)
RefusedUntouched ==
    /\ pc["ioctl"] = "ret"
    /\ ret["ioctl"] = EINVAL
    /\ IoLog = << >>

(* the control call in progress was let through to regmap_update_bits *)
CtrlAccepted == ~(pc["ioctl"] = "ret" /\ ret["ioctl"] = EINVAL)

CtrlSucceeded == pc["ioctl"] = "ret" /\ ret["ioctl"] = 0

(* AMSYSCFG bits 0x00C0 for the gains set_audio_gain accepts *)
GainEncoding(db) ==
    IF db = 0 - 3 THEN 128
    ELSE IF db = 0 THEN 192
    ELSE IF db = 3 THEN 0
    ELSE 64

(* C16: set_audio_gain accepts exactly -3, 0, 3 and 6 and leaves AMSYSCFG
   bits 0x00C0 at 0x0080, 0x00C0, 0x0000, 0x0040 respectively;
   set_deemphasis accepts exactly 75us and 50us and leaves VOLUME bit 0x0800
   clear / set; every other value fails with -EINVAL and causes no register
   read or write. *)
C16_EnumeratedControls ==
    /\ op.name = "s_gain" =>
         IF op.arg \in {0 - 3, 0, 3, 6} THEN
           /\ CtrlAccepted
           /\ CtrlSucceeded =>
                /\ (dev[22] \div 64) % 4 = GainEncoding(op.arg) \div 64
                /\ IoLog[Len(IoLog)].a = 22
                /\ (IoLog[Len(IoLog)].v \div 64) % 4 = GainEncoding(op.arg) \div 64
         ELSE RefusedUntouched
    /\ op.name = "s_deemphasis" =>
         IF op.arg \in {V4L2_DEEMPHASIS_75_uS, V4L2_DEEMPHASIS_50_uS} THEN
           /\ CtrlAccepted
           /\ CtrlSucceeded =>
                /\ (dev[4] \div 2048) % 2
                     = (IF op.arg = V4L2_DEEMPHASIS_50_uS THEN 1 ELSE 0)
                /\ IoLog[Len(IoLog)].a = 4
         ELSE RefusedUntouched

(* set_audio_gain(-3) has written 0x0080 into the gain field *)
C16_Witness ==
    /\ op.name = "s_gain" /\ op.arg = 0 - 3
    /\ CtrlSucceeded
    /\ Len(IoLog) = 2 /\ IoLog[2].k = "w" /\ IoLog[2].ok
    /\ BitAnd(dev[22], 192) = 128

(* C17: while radio->band is AM, set_stereo_mode(stereo) fails with -EINVAL
   and issues no register access, and set_stereo_mode(mono) is accepted and,
   when it succeeds, leaves the DSPCFGA mono bit 0x8000 set; while the band
   is FM or FM_EXTENDED both values are accepted and leave the bit clear for
   stereo and set for mono. *)
C17_StereoMode ==
    (op.name = "s_tuner" /\ op.idx = 0
       /\ op.arg \in {V4L2_TUNER_MODE_MONO, V4L2_TUNER_MODE_STEREO}) =>
      /\ band = entry.band
      /\ IF band = BAND_AM /\ op.arg = V4L2_TUNER_MODE_STEREO
         THEN RefusedUntouched
         ELSE /\ CtrlAccepted
              /\ CtrlSucceeded =>
                   /\ dev[5] \div 32768
                        = (IF op.arg = V4L2_TUNER_MODE_MONO THEN 1 ELSE 0)
                   /\ IoLog[Len(IoLog)].a = 5

(* stereo refused on AM, after a tune to AM *)
C17_Witness ==
    /\ op.name = "s_tuner" /\ op.idx = 0 /\ op.arg = V4L2_TUNER_MODE_STEREO
    /\ band = BAND_AM
    /\ RefusedUntouched
    /\ tuned = 1000 * 16

(* ------------------------------------------------------------------ *)
(* Claims about the read-only operations (checked under Spec)          *)
(* ------------------------------------------------------------------ *)
ReadNames == {"g_frequency", "g_tuner", "g_pll_lock"}

(* the 5-bit raw RSSI in a status register value read in band b *)
RawRssi(b, v) == IF b = BAND_AM THEN (v \div 256) % 32 ELSE (v \div 8) % 32

(* the scaling over every raw value, with all other register bits set *)
RssiScalingHolds ==
    \A raw \in 0..31 :
      /\ kt0913_get_fm_rssi(65280 + raw * 8 + 7) = (raw * 65535) \div 31
      /\ kt0913_get_am_rssi(57344 + raw * 256 + 255) = (raw * 65535) \div 31

(* the call in progress is a tuner status read that has returned 0, and its
   last read is the RSSI read of the current band *)
RssiReturned ==
    /\ op.name = "g_tuner" /\ pc["ioctl"] = "ret" /\ ret["ioctl"] = 0
    /\ IoLog[Len(IoLog)].k = "r"
    /\ IoLog[Len(IoLog)].a = (IF band = BAND_AM THEN 36 ELSE 18)

(* C18 (as stated): get_signal_strength returns raw * 65535 / 31 truncated
   for the raw RSSI it extracts, which is 0 for raw 0, 65535 for raw 31 and
   31705 for raw 15. *)
C18_RssiScaling_as_stated ==
    (op.name = "g_tuner" /\ pc["ioctl"] = "ret" /\ ret["ioctl"] = 0) =>
      LET raw == RawRssi(band, IoLog[Len(IoLog)].v)
      IN /\ RssiReturned
         /\ out.val = (raw * 65535) \div 31
         /\ (raw = 0 => out.val = 0)
         /\ (raw = 31 => out.val = 65535)
         /\ (raw = 15 => out.val = 31705)

(* C18 (amended): get_signal_strength reads STATUSA on the FM bands and
   AMSTATUSA on AM, extracts the raw RSSI (bits 0xF8 >> 3, resp.
   0x1F00 >> 8) and returns raw * 65535 / 31 truncated, for every raw in
   0..31: 0 for raw 0, 65535 for raw 31 and 31710 for raw 15.  (The scaling
   over all raw values is evaluated in the states in which the call has
   returned.) *)
C18_RssiScaling ==
    (op.name = "g_tuner" /\ pc["ioctl"] = "ret" /\ ret["ioctl"] = 0) =>
      LET raw == RawRssi(band, IoLog[Len(IoLog)].v)
      IN /\ RssiScalingHolds
         /\ RssiReturned
         /\ out.val = (raw * 65535) \div 31
         /\ (raw = 0 => out.val = 0)
         /\ (raw = 31 => out.val = 65535)
         /\ (raw = 15 => out.val = 31710)

(* a raw RSSI of 15 read on FM is reported as 31710 *)
C18_Witness ==
    /\ op.name = "g_tuner" /\ pc["ioctl"] = "ret" /\ ret["ioctl"] = 0
    /\ band = BAND_FM
    /\ RawRssi(band, IoLog[3].v) = 15
    /\ out.val = 31710

(* C19: enumerate_bands answers index 0 with the FM_EXTENDED descriptor
   (32-110 MHz) if the campus band is enabled and with the FM descriptor
   (64-110 MHz) otherwise, index 1 with the AM descriptor (500-1710 kHz),
   and fails for every other index, whatever radio->band is; it issues no
   register access and does not change radio->band. *)
C19_EnumerateBands ==
    op.name = "enum_freq_bands" =>
      /\ pc["ioctl"] = "ret"
      /\ IoLog = << >>
      /\ band = entry.band
      /\ IF op.idx = 0 /\ op.arg = 0 THEN
           /\ ret["ioctl"] = 0
           /\ out.val = (IF campus # 0 THEN 1 ELSE 0)
           /\ out.sub = (IF campus # 0 THEN 32000 * 16 ELSE 64000 * 16)
           /\ out.mode = 110000 * 16
         ELSE IF op.idx = 0 /\ op.arg = 1 THEN
           /\ ret["ioctl"] = 0
           /\ out.val = 2
           /\ out.sub = 500 * 16
           /\ out.mode = 1710 * 16
         ELSE ret["ioctl"] = EINVAL

(* index 0 answered with the campus descriptor while tuned to AM *)
C19_Witness ==
    /\ op.name = "enum_freq_bands" /\ op.idx = 0 /\ op.arg = 0
    /\ campus = 1 /\ band = BAND_AM
    /\ pc["ioctl"] = "ret" /\ ret["ioctl"] = 0
    /\ out.sub = 32000 * 16

(* C20: get_frequency, get_pll_lock and the tuner status read
   (get_stereo_active, get_signal_strength) issue register reads only and
   leave radio->band unchanged; get_frequency reads AMCHAN iff radio->band
   is AM and TUNE otherwise, the signal strength is read from AMSTATUSA iff
   radio->band is AM and from STATUSA otherwise. *)
C20_ReadOnly ==
    op.name \in ReadNames =>
      LET L == IoLog
          n == Len(L)
          done == pc["ioctl"] = "ret" /\ ret["ioctl"] = 0
      IN /\ band = entry.band
         /\ \A i \in 1..n : L[i].k = "r"
         /\ op.name = "g_frequency" =>
              /\ \A i \in 1..n : L[i].a = (IF band = BAND_AM THEN 23 ELSE 3)
              /\ done => n = 1
         /\ op.name = "g_pll_lock" =>
              /\ \A i \in 1..n : L[i].a = 18
              /\ done => n = 1
         /\ op.name = "g_tuner" =>
              IF band = BAND_AM
              THEN /\ \A i \in 1..n : L[i].a = 36
                   /\ done => n = 1
              ELSE /\ \A i \in 1..n : L[i].a = (IF i = 1 THEN 5 ELSE 18)
                   /\ done => n = 3

(* get_frequency on AM has read AMCHAN, once *)
C20_Witness ==
    /\ op.name = "g_frequency" /\ pc["ioctl"] = "ret" /\ ret["ioctl"] = 0
    /\ band = BAND_AM
    /\ IoLog = << [k |-> "r", a |-> 23, v |-> dev[23], ok |-> TRUE, s |-> "read"] >>

(* ------------------------------------------------------------------ *)
(* Claims about the register map and the band state                    *)
(* ------------------------------------------------------------------ *)
(* 0x01-0x05, 0x0A, 0x0C, 0x0F, 0x12-0x14, 0x16-0x18, 0x1D, 0x22,
   0x24-0x25, 0x2E-0x2F, 0x30-0x34, 0x3A, 0x3C *)
kt0913_regmap_all_registers_range ==
    (1..5) \cup {10, 12, 15} \cup (18..20) \cup (22..24) \cup {29, 34}
    \cup (36..37) \cup (46..47) \cup (48..52) \cup {58, 60}

(* C21: every register access issued by attach, the init table, tuning,
   the controls, the status reads and the standby transitions targets an
   address of the addressable range list, and no register outside the list
   is ever changed. *)
C21_AddressesInRange ==
    /\ \A t \in Logged : \A i \in 1..Len(log[t]) : log[t][i].a \in kt0913_regmap_all_registers_range
    /\ \A i \in 1..Len(kt0913_init_regs_to_defaults) :
         kt0913_init_regs_to_defaults[i][1] \in kt0913_regmap_all_registers_range
    /\ kt0913_set_standby(TRUE).a \in kt0913_regmap_all_registers_range
    /\ kt0913_set_standby(FALSE).a \in kt0913_regmap_all_registers_range
    /\ op.name \in CtrlNames /\ CtrlAccepted =>
         CtrlUpdate(op, band).a \in kt0913_regmap_all_registers_range
    /\ op.name \in ReadNames /\ op.idx = 0 =>
         \A i \in 1..Len(ReadPlan(op, band)) :
           ReadPlan(op, band)[i] \in kt0913_regmap_all_registers_range
    /\ Regs \subseteq kt0913_regmap_all_registers_range

(* a status read on AM has reached AMSTATUSA (0x24), after a tune that
   wrote AMCHAN (0x17) *)
C21_Witness ==
    /\ op.name = "g_tuner" /\ band = BAND_AM
    /\ pc["ioctl"] = "ret" /\ ret["ioctl"] = 0
    /\ IoLog[1].a = 36
    /\ dev[23] = 32768 + 1000

(* the field of update u already has the requested content in value v *)
FieldHeld(u, v) == BitAnd(v, u.m) = BitAnd(u.v, u.m)

(* the standby update a pm, remove or probe write label belongs to *)
PendingStandby ==
    << <<"pm", "suspend_w", TRUE>>, <<"pm", "resume_w", FALSE>>,
       <<"remove", "rm_standby_w", TRUE>>, <<"probe", "p_errfr_w", TRUE>> >>

(* C22: a field update that changes nothing is skipped on the bus.  A control
   call that returned 0 leaves its field with the requested content; a control
   call whose read finds the field already holding the requested content
   (which is what a second application of the same call finds) issues no
   write, returns 0 and leaves the field, and outside RXCFG the whole
   register, as read; a standby update has a write pending only when it
   changes the register; and a set_frequency that goes from one FM band to
   the other issues no write to AMSYSCFG. *)
C22_SkipUnchanged ==
    /\ (op.name \in CtrlNames /\ CtrlUpdate(op, band).valid) =>
         LET u == CtrlUpdate(op, band) IN
         /\ CtrlSucceeded => FieldHeld(u, dev[u.a])
         /\ (Len(IoLog) >= 1 /\ IoLog[1].ok /\ FieldHeld(u, IoLog[1].v)) =>
               /\ Len(IoLog) = 1
               /\ CtrlSucceeded
               /\ FieldHeld(u, dev[u.a])
               /\ u.a # KT0913_REG_RXCFG => dev[u.a] = IoLog[1].v
    /\ \A i \in 1..Len(PendingStandby) :
         LET e == PendingStandby[i]
             u == kt0913_set_standby(e[3]) IN
         pc[e[1]] = e[2] =>
             /\ UpdateBits(tmp[e[1]], u.m, u.v) # tmp[e[1]]
             /\ dev[u.a] = tmp[e[1]]
    /\ (op.name = "s_frequency" /\ entry.band # BAND_AM /\ newband # BAND_AM) =>
         \A i \in 1..Len(IoLog) :
           ~(IoLog[i].k = "w" /\ IoLog[i].a = KT0913_REG_AMSYSCFG)

(* the second of two set_volume(-30) calls: the field read is already 16, and
   the call has returned 0 after that one read *)
C22_Witness ==
    /\ calls = 2
    /\ op.name = "s_volume" /\ op.arg = 0 - 30
    /\ pc["ioctl"] = "ret" /\ ret["ioctl"] = 0
    /\ Len(IoLog) = 1 /\ IoLog[1].k = "r"
    /\ BitAnd(IoLog[1].v, KT0913_RXCFGA_VOLUME_MASK) = 16

(* C23: in every state after a successful attach (and so a successful
   __kt0913_init), whatever set_frequency, control, status and standby
   operations ran and whichever of them failed on the transport, the AM/FM
   mode bit of AMSYSCFG has the AM encoding exactly when radio->band is
   BAND_AM. *)
C23_ModeBitFollowsBand ==
    pc["probe"] = "p_done" =>
        (ModeBit(dev[KT0913_REG_AMSYSCFG]) = KT0913_AMSYSCFG_AM_FM_AM
           <=> band = BAND_AM)

(* the device is in AM, and a set_frequency towards FM has failed on the
   write of the mode bit: band and bit both still say AM *)
C23_Witness ==
    /\ pc["probe"] = "p_done"
    /\ op.name = "s_frequency" /\ pc["ioctl"] = "ret" /\ ret["ioctl"] = EIO
    /\ entry.band = BAND_AM /\ newband = BAND_FM
    /\ Len(IoLog) = 2 /\ IoLog[2].k = "w" /\ ~IoLog[2].ok
    /\ band = BAND_AM
    /\ ModeBit(dev[KT0913_REG_AMSYSCFG]) = KT0913_AMSYSCFG_AM_FM_AM

(* radio->band is a band, the campus band only with the parameter set, and
   a set_frequency that returned 0 asked for a frequency inside the closed
   range of the band now current (in V4L2 units of 1/16 kHz) *)
BandStateHolds ==
    /\ band \in {BAND_FM, BAND_FM_CAMUS, BAND_AM}
    /\ band = BAND_FM_CAMUS => campus # 0
    /\ (op.name = "s_frequency" /\ pc["ioctl"] = "ret" /\ ret["ioctl"] = 0) =>
         IF band = BAND_AM THEN op.arg \in (500 * 16)..(1710 * 16)
         ELSE IF band = BAND_FM_CAMUS THEN op.arg \in (32000 * 16)..(110000 * 16)
         ELSE op.arg \in (64000 * 16)..(110000 * 16)

(* a step that changes radio->band is a step of set_frequency, taken with
   radio->mutex held, and sets it to the band the frequency was classified as *)
BandChangesInSetFrequency ==
    band' # band =>
        /\ op.name = "s_frequency" /\ op' = op
        /\ mutex = "ioctl"
        /\ pc["ioctl"] \in {"sf_mode_r", "sf_mode_w"}
        /\ band' = newband

(* C24: in every reachable state radio->band is exactly one of FM, campus FM
   and AM; it is the campus band only if the campus band is enabled; it
   changes only inside a set_frequency call; and after every successful
   set_frequency(f), f lies within the closed range of the band then
   current. *)
C24_BandState == []BandStateHolds /\ [][BandChangesInSetFrequency]_vars

(* a set_frequency to the low edge of the campus band has returned 0 and
   moved radio->band from FM to the campus band *)
C24_Witness ==
    /\ op.name = "s_frequency" /\ op.arg = 32000 * 16
    /\ pc["ioctl"] = "ret" /\ ret["ioctl"] = 0
    /\ entry.band = BAND_FM /\ band = BAND_FM_CAMUS
    /\ campus = 1

(* the channel code of request f on band b, and the width of its field *)
ChannelCode(f, b) == IF b = BAND_AM THEN f \div 16 ELSE (f \div 16) \div 50

ChannelMask(b) == IF b = BAND_AM THEN 2047 ELSE 4095

(* C25: for every frequency set_frequency accepts, the channel code it writes
   fits its field and touches no other bit: (f/16)/50 <= 0x0FFF on the FM
   bands and f/16 <= 0x07FF on AM, the value written is 0x8000 + code, with
   the tune-enable bit set and every bit outside enable and channel field
   zero.  The codes of the upper band edges, the largest ones, fit as well. *)
C25_ChannelCodeFits ==
    /\ \A i \in 1..Len(IoLog) :
         IoLog[i].s = "freq" =>
           LET code == ChannelCode(op.arg, band)
               v == IoLog[i].v IN
           /\ IoLog[i].k = "w"
           /\ op.name = "s_frequency"
           /\ code <= ChannelMask(band)
           /\ v = 32768 + code
           /\ BitAnd(v, 32768) = 32768
           /\ BitAnd(v, ChannelMask(band)) = code
           /\ BitAnd(v, 65535 - 32768 - ChannelMask(band)) = 0
    /\ \A b \in {BAND_FM, BAND_FM_CAMUS, BAND_AM} :
         ChannelCode(rangehigh(b), b) <= ChannelMask(b)

(* a set_frequency to the upper edge of the FM band, 110 MHz, wrote
   0x8000 + 2200 to TUNE *)
C25_Witness ==
    /\ op.name = "s_frequency" /\ op.arg = 110000 * 16
    /\ pc["ioctl"] = "ret" /\ ret["ioctl"] = 0
    /\ Len(IoLog) >= 1
    /\ IoLog[Len(IoLog)].a = KT0913_REG_TUNE
    /\ IoLog[Len(IoLog)].v = 32768 + 2200
    /\ dev[KT0913_REG_TUNE] = 32768 + 2200

(* ------------------------------------------------------------------ *)
(* Claims about the error exits of kt0913_probe and about RXCFG        *)
(* ------------------------------------------------------------------ *)
(* the next step of kt0913_probe is an operation on radio->regmap: an entry
   of the init table, a field update of __kt0913_init, or the standby update
   at errfr *)
ProbeAtRegmapOperation ==
    pc["probe"] \in {"i_table", "i_r", "i_w", "p_errfr", "p_errfr_w"}

(* C26: on every path through kt0913_probe, every error exit included, an
   operation on radio->regmap is issued only after the regmap has been
   created.  Violated: errfr runs __kt0913_set_standby with radio->regmap
   still NULL. *)
C26_RegmapBeforeUse ==
    /\ ProbeAtRegmapOperation => regmap
    /\ pc["probe"] # "p_oops"

(* no runtime-PM callback and no kt0913_remove is under way or has run *)
StandbyQuiet ==
    pc["probe"] = "p_done" /\ pc["pm"] = "idle" /\ pc["remove"] = "idle"

(* C27: a set_volume racing a power-management transition loses neither
   update of RXCFG.  Once set_volume(db) has returned 0 the volume field
   holds db/2 + 31 (modulo the 5-bit field), whatever standby transitions ran
   during the call; and whenever no standby transition is under way the
   standby bit is set exactly when the last transition was a successful
   suspend, whatever set_volume calls ran during the transition. *)
C27_NoLostUpdate ==
    /\ (op.name = "s_volume" /\ CtrlSucceeded) =>
         BitAnd(dev[KT0913_REG_RXCFG], KT0913_RXCFGA_VOLUME_MASK)
           = (CDiv(op.arg, 2) + 31 + 32) % 32
    /\ StandbyQuiet =>
         (BitAnd(dev[KT0913_REG_RXCFG], KT0913_RXCFGA_STDBY_MASK)
            = KT0913_RXCFGA_STDBY_ON  <=>  pm_suspended)

(* set_volume(-30) wrote RXCFG with the standby bit clear, a suspend that
   started after that write has set the bit, and the register holds both the
   volume field 16 and the standby bit *)
C27_Witness ==
    /\ op.name = "s_volume" /\ op.arg = 0 - 30
    /\ pc["ioctl"] = "ret" /\ ret["ioctl"] = 0
    /\ Len(IoLog) = 2 /\ IoLog[2].k = "w" /\ IoLog[2].ok
    /\ BitAnd(IoLog[2].v, KT0913_RXCFGA_STDBY_MASK) = 0
    /\ pc["pm"] = "idle" /\ pm_suspended
    /\ BitAnd(dev[KT0913_REG_RXCFG], KT0913_RXCFGA_VOLUME_MASK) = 16
    /\ BitAnd(dev[KT0913_REG_RXCFG], KT0913_RXCFGA_STDBY_MASK) = KT0913_RXCFGA_STDBY_ON

====
